---------------------------- MODULE Spec2Model ----------------------------
(***************************************************************************)
(* A model of the kernel core of biscuit (src/kernel/main.go): the         *)
(* circular buffer circbuf_t, the fd pass queue passfd_t and the process   *)
(* table entry point proc_new.  Every subsystem has its own specification  *)
(* over the shared variables; the variables of the other subsystems stay   *)
(* at their initial values.                                                *)
(***************************************************************************)
EXTENDS Integers, Sequences, FiniteSets, TLC

\* ------------------------------------------------------------------ bounds

\* largest circbuf size handed to cb_init (the code allows 1..PGSIZE)
MaxSz == 3
\* largest page slice handed to cb_init_phys, and largest argument of the
\* raw calls
MaxRawSz == 4
\* cap on head
MaxHead == 5
\* cap on the number of calls whose user buffer faults
MaxFaults == 1

\* pages a circbuf acquires over a run, and cb_release calls over a run
MaxPages == 2

MaxRel == 3

\* entries of an iovec, the largest size of an entry, and the longest
\* kernel slice handed to uiowrite
MaxIovs == 3

MaxIoSz == 2

MaxSrc == 3

\* frames a call stack may have beyond the frames that _fakefail records
MaxExtra == 1

\* performance counters of the CPU, and events in one startpmc call
MaxPmc == 2

MaxEvs == 2

\* number of fds add accepts over a run
MaxAdds == 33

\* syslimit.sysprocs, the cap on nthreads
SysProcs == 2

\* tasks that call proc_new
NCallers == 2

\* slots of the parent fd table handed to proc_new
MaxFdSlots == 1

\* largest trap number fed to trapstub
MaxTrap == 65

\* bytes the console devices supply in the ordering runs
MaxKeys == 2

\* bytes a console device has ready at one interrupt
MaxBurst == MaxKeys

\* the largest cnt passed to kbd_get
MaxCnt == MaxKeys

\* tasks that call kbd_get, and polls of the console
NReaders == 1

NPolls == 1

\* APs the machine has; aplim is at most this and ncpu at most one more
MaxAp == 2

\* the pages phys_init reserves (1 << 16 in the code); 200 is the least
\* number for which phys_init lets Get_phys skip a page
respgs == 200

\* the most pages Get_phys skips at the one place where it skips
MaxSkip == 1

\* the page at which Get_phys skips is one of the first or of the last
\* MaxHole of the loop of phys_init
MaxHole == 8

\* the most references to one frame, and the most frames allocated at once
MaxRef == 2

MaxHeld == 2

\* ------------------------------------------------------------ constants

\* slots of the fd pass ring (passfd_t.add makes it on first use)
PassfdCap == 10

\* trap numbers (declared outside main.go): the timer, the base of the
\* IOAPIC lines, the keyboard and COM1 lines, the disk's vector, the first
\* and the last MSI vector, the last IRQ vector
\* capacity of the slice start in kbd_daemon
StartCap == 10

\* the length of data above which addprint drops the key
KeyCap == 1024

\* the bytes kbd_daemon tells apart
Backslash == 92

CarriageReturn == 13

Newline == 10

Delete == 127

Backspace == 8

\* ^uint32(0), the end of a list of frames: the word of all ones, which is
\* the index of no frame, written as a signed number
NIL == -1

\* the refcnt of a frame that the allocator does not own
Sentinel == -10

TIMER == 32
IRQ_BASE == 32
IRQ_KBD == 1
IRQ_COM1 == 4
INT_DISK == 46
INT_MSI0 == 56
INT_MSI7 == 63
IRQ_LAST == 63

\* the most entries iov_init accepts
IovLimit == 10

\* the frames _fakefail records of a call stack, and the multiplier and
\* the increment of _pchash
FrameCap == 30

HashMul == 1103515245

HashAdd == 12345

\* errno values; the code returns them negated
EFAULT == 14
ENOMEM == 12
EINVAL == 22
\* content of a byte of the page that nothing has written yet (the page
\* comes from refpg_new_nozero and is not cleared); no source byte has it
Uninit == -1

VARIABLES
    cb,      \* the circbuf_t: buf (<<>> is nil), bufsz, head, tail
    usr,     \* the data of the user side: "counting" (the k-th byte that
             \* user sources supply has value k) or "zeros" (every byte is 0)
    nsrc,    \* counting: bytes drawn from user sources so far
    acc,     \* counting: the bytes copyin returned as taken, in order
    nout,    \* counting: bytes copyout returned as handed over so far
    nfault,  \* calls so far whose user buffer returned -EFAULT
    cres,    \* the last circbuf call: its arguments and its results
    cbpg,    \* the page of the circbuf: p_pg, the pages acquired so far
             \* (nacq), the pages passed to refup and to refdown, in order,
             \* and the cb_release calls so far (nrel)
    pf,      \* the passfd_t: cb (<<>> is nil), inum, cnum
    added,   \* the fds add accepted, in order
    taken,   \* the fds take returned, in order
    pres,    \* the last passfd call: its result, the fds it closed
    proclock,  \* the task holding proclock, 0 when it is free
    nthreads,  \* the system-wide thread count
    pid_cur,   \* the id counter
    allprocs,  \* the map from pid to process
    tpc,       \* where each task is in proc_new
    tl,        \* each task's locals in proc_new
    pret,      \* what each task's last proc_new returned
    emitted,   \* the ids handed out, in the order proclock was taken
    twake,     \* the vectors with a wake posted and not yet taken
    tmask,     \* the IOAPIC lines that are masked
    tres,      \* the last trapstub call: its trap number and what it did
    tdisk,     \* where trap_disk is
    tcons,     \* where each trap_cons task is
    data,      \* kbd_daemon: the bytes of the slice data
    doff,      \* kbd_daemon: where data begins in the array of start, or
               \* Heap when append moved it to an array of its own
    start,     \* kbd_daemon: the array of 10 bytes behind the slice start
    reqc,      \* kbd_daemon: TRUE when its reqc is cons.reqc, FALSE when nil
    pollers,   \* kbd_daemon: the polls subscribed for R_READ
    kpc,       \* kbd_daemon: the statement it is at
    kreg,      \* kbd_daemon: the locals of the case it is in
    rd,        \* each kbd_get caller: where it is, its cnt, its slice
    pl,        \* each poll of the console: where it is
    appended,  \* the bytes addprint appended to data, in order
    delivered, \* the bytes of the slices kbd_get returned, in the order of
               \* the returns, as their callers read them; Unread before
    woken,     \* the polls notified since they last polled
    cs,        \* cpus_start: the statement it is at and its locals
    gomaxprocs,  \* the scheduler width, set by runtime.GOMAXPROCS
    numcpus,   \* the CPU count set_cpucount recorded
    ss,        \* secret storage: the AP count and the proceed flag
    ipis,      \* the IPIs sent, in order
    stk,       \* the pages above stackstart that are mapped, by number
    ap,        \* each AP: where its trampoline is and the id it drew
    physmem,   \* the allocator: pgs (refcnt and nexti of each frame, by
               \* index from 0; <<>> before phys_init) and freei
    ppc,       \* "boot" before phys_init, "ready" after it, or "panic"
    held,      \* the frames alloc returned whose count is not back to 0
    pgret,     \* what the last alloc returned: a frame or -ENOMEM
    flist,     \* the frames pushed on the free list and not popped since,
               \* the last pushed first
    uio,       \* a useriovec_t (iovs, tsz), the entries iov_init read, the
               \* unmapped user addresses, the bytes placed in user memory
               \* in order, and what the last call returned
    ff,        \* allocation-failure injection: failalloc, the stack hashes
               \* failed so far, the _fakefail calls so far
    pmc,       \* the intelprof_t: the counters and the last startpmc call
    tstub      \* each console vector: where the trapstub call that its
               \* interrupt entered is, "idle" when none is running

cbvars == <<cb, usr, nsrc, acc, nout, nfault, cres, cbpg>>
pfvars == <<pf, added, taken, pres>>
procvars == <<proclock, nthreads, pid_cur, allprocs, tpc, tl, pret, emitted>>
trapvars == <<twake, tmask, tres, tdisk>>
consvars == <<tcons, data, doff, start, reqc, pollers, kpc, kreg, rd, pl,
              appended, delivered, woken>>
cpuvars == <<cs, gomaxprocs, numcpus, ss, ipis, stk, ap>>
physvars == <<physmem, ppc, held, pgret, flist>>
\* the buffers over user memory, the failure injection, the profiler
auxvars == <<uio, ff, pmc, tstub>>

\* the variables of the other subsystems
noncb == <<auxvars, physvars, pfvars, procvars, trapvars, consvars, cpuvars>>
nonpf == <<auxvars, physvars, cbvars, procvars, trapvars, consvars, cpuvars>>
nonproc == <<auxvars, physvars, cbvars, pfvars, trapvars, consvars, cpuvars>>
nontrap == <<auxvars, physvars, cbvars, pfvars, procvars, consvars, cpuvars>>
nonio == <<auxvars, cbvars, pfvars, procvars, cpuvars, physvars>>
noncpu == <<auxvars, cbvars, pfvars, procvars, trapvars, consvars, physvars>>
nonphys == <<auxvars, cbvars, pfvars, procvars, trapvars, consvars, cpuvars>>
\* the variables of the subsystems above
mainvars == <<cbvars, pfvars, procvars, trapvars, consvars, cpuvars,
              physvars>>
vars == <<cb, usr, nsrc, acc, nout, nfault, cres, cbpg,
          pf, added, taken, pres,
          proclock, nthreads, pid_cur, allprocs, tpc, tl, pret, emitted,
          twake, tmask, tres, tdisk,
          tcons, data, doff, start, reqc, pollers, kpc, kreg, rd, pl,
          appended, delivered, woken,
          cs, gomaxprocs, numcpus, ss, ipis, stk, ap,
          physmem, ppc, held, pgret, flist, uio, ff, pmc, tstub>>

\* ----------------------------------------------------------------- helpers

Min(a, b) == IF a <= b THEN a ELSE b

\* the ring indices a, a+1, .., b-1 of the Go slice buf[a:b]
Idx(a, b) == [k \in 1..(b - a) |-> a + k - 1]

\* buf[a:b] is a legal slice expression of a buffer of n bytes
SliceOk(a, b, n) == 0 <= a /\ a <= b /\ b <= n

\* buf after copy(buf[at:], bytes)
Put(buf, at, bytes) ==
    [i \in 1..Len(buf) |->
        IF at + 1 <= i /\ i <= at + Len(bytes) THEN bytes[i - at] ELSE buf[i]]

\* the bytes of buf at ring indices at .. at+n-1
Get(buf, at, n) == [k \in 1..n |-> buf[at + k]]

\* ------------------------------------------------------ user buffers

\* A user buffer (userio_i) as the copy routines see it: w bytes can still
\* be moved (data: the bytes a source holds); when they are used up the
\* buffer is either exhausted (a short transfer, no error) or, with e, the
\* next page is unmapped (-EFAULT).  One call of uioread / uiowrite on a
\* kernel slice of n bytes moves min(n, w) bytes, returns that count (also
\* beside the error, as useriovec_t._tx returns did) and leaves the rest
\* for the next call.
Uio(n, ub) ==
    LET c == Min(ub.w, n) IN
    [n     |-> c,
     err   |-> IF ub.e /\ ub.w < n THEN 0 - EFAULT ELSE 0,
     moved |-> SubSeq(ub.data, 1, c),
     ub    |-> [ub EXCEPT !.w = ub.w - c,
                          !.data = SubSeq(ub.data, c + 1, Len(ub.data))]]

\* ------------------------------------------------------------- circbuf_t

ZeroCb == [buf |-> <<>>, bufsz |-> 0, head |-> 0, tail |-> 0]

\* cres before any call.  n, err: what the call returned; xfer: the bytes
\* the user buffer moved during it; a1, a2: its integer arguments; bytes:
\* what the user buffer moved (in order); r1, r2: the slices a raw call
\* returned, as sequences of ring indices
NoRes == [op |-> "none", panic |-> FALSE, n |-> 0, err |-> 0, xfer |-> 0,
          a1 |-> 0, a2 |-> 0, bytes |-> <<>>, r1 |-> <<>>, r2 |-> <<>>]

full(c) == c.head - c.tail = c.bufsz

empty(c) == c.head = c.tail

left(c) == c.bufsz - (c.head - c.tail)

used(c) == c.head - c.tail

\* cb_init_phys(v, p_pg): v is the page's byte slice
cb_init_phys(c, v) ==
    [c EXCEPT !.buf = v, !.bufsz = Len(v), !.head = 0, !.tail = 0]

\* cb_ensure that starts the circbuf over when it gets no page
cb_ensure_clears(c, ok) ==
    IF c.buf # <<>> THEN [cb |-> c, err |-> 0, panic |-> FALSE]
    ELSE IF c.bufsz = 0 THEN [cb |-> c, err |-> 0, panic |-> TRUE]
    ELSE IF ~ok THEN [cb |-> [c EXCEPT !.head = 0, !.tail = 0],
                      err |-> 0 - ENOMEM, panic |-> FALSE]
    ELSE [cb |-> cb_init_phys(c, [i \in 1..c.bufsz |-> Uninit]),
          err |-> 0, panic |-> FALSE]

\* cb_ensure: ok is the outcome of refpg_new_nozero
cb_ensure(c, ok) ==
    IF c.buf # <<>> THEN [cb |-> c, err |-> 0, panic |-> FALSE]
    ELSE IF c.bufsz = 0 THEN [cb |-> c, err |-> 0, panic |-> TRUE]
    ELSE IF ~ok THEN [cb |-> c, err |-> 0 - ENOMEM, panic |-> FALSE]
    ELSE [cb |-> cb_init_phys(c, [i \in 1..c.bufsz |-> Uninit]),
          err |-> 0, panic |-> FALSE]

\* the outcome of a copy: the circbuf after it, the returned count and
\* error, the number of bytes the user buffer moved, and those bytes
CopyRes(c, n, err, xfer, bytes, panic) ==
    [cb |-> c, n |-> n, err |-> err, xfer |-> xfer, bytes |-> bytes,
     panic |-> panic]

\* the second half of copyin, from the XXXPANIC check on: cnt is c, the
\* number of bytes the first segment took, got those bytes
copyin_tail(c, hi, ti, cnt, got, ub) ==
    IF hi > ti THEN CopyRes(c, 0, 0, cnt, got, TRUE)
    ELSE
        LET u2 == Uio(ti - hi, ub)
            c2 == [c EXCEPT !.buf = Put(c.buf, hi, u2.moved)]
            tot == cnt + u2.n
            all == got \o u2.moved
        IN  IF u2.err # 0 THEN CopyRes(c2, tot, u2.err, tot, all, FALSE)
            ELSE CopyRes([c2 EXCEPT !.head = c.head + tot], tot, 0, tot,
                         all, FALSE)

\* copyin(src): ok is the page allocation's outcome, ub the user buffer src
copyin(c0, ok, ub) ==
    LET en == cb_ensure(c0, ok) IN
    IF en.panic THEN CopyRes(c0, 0, 0, 0, <<>>, TRUE)
    ELSE IF en.err # 0 THEN CopyRes(en.cb, 0, en.err, 0, <<>>, FALSE)
    ELSE
        LET c == en.cb IN
        IF full(c) THEN CopyRes(c, 0, 0, 0, <<>>, FALSE)
        ELSE
            LET hi == c.head % c.bufsz
                ti == c.tail % c.bufsz
            IN  IF ti <= hi
                THEN
                    LET dlen == c.bufsz - hi
                        u1 == Uio(dlen, ub)
                        c1 == [c EXCEPT !.buf = Put(c.buf, hi, u1.moved)]
                    IN  IF u1.err # 0
                        THEN CopyRes(c1, 0, u1.err, u1.n, u1.moved, FALSE)
                        ELSE IF u1.n # dlen
                        THEN CopyRes([c1 EXCEPT !.head = c.head + u1.n],
                                     u1.n, 0, u1.n, u1.moved, FALSE)
                        ELSE copyin_tail(c1, (c.head + u1.n) % c.bufsz, ti,
                                         u1.n, u1.moved, u1.ub)
                ELSE copyin_tail(c, hi, ti, 0, <<>>, ub)

\* copyout_n that hands over a whole segment whatever max is
CapLen_whole(len, max) == len

\* src[:max] of copyout_n: the length of the slice handed to uiowrite
CapLen(len, max) == IF max # 0 /\ max < len THEN max ELSE len

\* the second half of copyout_n, from the XXXPANIC check on: cnt is c,
\* out the bytes of the first segment, max the limit left
copyout_tail(c, hi, ti, cnt, out, max, ub) ==
    IF ti > hi THEN CopyRes(c, 0, 0, cnt, out, TRUE)
    ELSE
        LET slen == CapLen(hi - ti, max)
            u2 == Uio(slen, ub)
            all == out \o Get(c.buf, ti, u2.n)
            tot == cnt + u2.n
        IN  IF u2.err # 0 THEN CopyRes(c, 0, u2.err, tot, all, FALSE)
            ELSE CopyRes([c EXCEPT !.tail = c.tail + tot], tot, 0, tot,
                         all, FALSE)

\* copyout_n(dst, max)
copyout_n(c0, ok, max, ub) ==
    LET en == cb_ensure(c0, ok) IN
    IF en.panic THEN CopyRes(c0, 0, 0, 0, <<>>, TRUE)
    ELSE IF en.err # 0 THEN CopyRes(en.cb, 0, en.err, 0, <<>>, FALSE)
    ELSE
        LET c == en.cb IN
        IF empty(c) THEN CopyRes(c, 0, 0, 0, <<>>, FALSE)
        ELSE
            LET hi == c.head % c.bufsz
                ti == c.tail % c.bufsz
            IN  IF hi <= ti
                THEN
                    LET slen == CapLen(c.bufsz - ti, max)
                        u1 == Uio(slen, ub)
                        out == Get(c.buf, ti, u1.n)
                    IN  IF u1.err # 0
                        THEN CopyRes(c, 0, u1.err, u1.n, out, FALSE)
                        ELSE IF u1.n # slen \/ u1.n = max
                        THEN CopyRes([c EXCEPT !.tail = c.tail + u1.n],
                                     u1.n, 0, u1.n, out, FALSE)
                        ELSE copyout_tail(c, hi, (c.tail + u1.n) % c.bufsz,
                                          u1.n, out,
                                          IF max # 0 THEN max - u1.n ELSE max,
                                          u1.ub)
                ELSE copyout_tail(c, hi, ti, 0, <<>>, max, ub)

\* copyout(dst)
copyout(c0, ok, ub) == copyout_n(c0, ok, 0, ub)

\* the outcome of a raw call: the slices as sequences of ring indices
RawRes(r1, r2, panic) == [r1 |-> r1, r2 |-> r2, panic |-> panic]

RawPanic == RawRes(<<>>, <<>>, TRUE)

\* _rawwrite(offset, sz)
_rawwrite(c, offset, sz) ==
    IF c.buf = <<>> THEN RawPanic
    ELSE IF left(c) < sz THEN RawPanic
    ELSE IF sz = 0 THEN RawRes(<<>>, <<>>, FALSE)
    ELSE
        LET oi == (c.head + offset) % c.bufsz
            oe == (c.head + offset + sz) % c.bufsz
            hi == c.head % c.bufsz
            ti == c.tail % c.bufsz
        IN  IF ti <= hi
            THEN IF (oi >= ti /\ oi < hi) \/ (oe > ti /\ oe <= hi)
                 THEN RawPanic
                 ELSE IF c.bufsz - oi > sz
                 THEN RawRes(Idx(oi, oi + sz), <<>>, FALSE)
                 ELSE RawRes(Idx(oi, c.bufsz), Idx(0, oe), FALSE)
            ELSE IF ~(oi >= hi /\ oi < ti /\ oe > hi /\ oe <= ti)
                 THEN RawPanic
                 ELSE IF ~SliceOk(oi, oe, c.bufsz) THEN RawPanic
                 ELSE RawRes(Idx(oi, oe), <<>>, FALSE)

\* _advhead(sz)
_advhead(c, sz) ==
    IF full(c) \/ left(c) < sz THEN [cb |-> c, panic |-> TRUE]
    ELSE [cb |-> [c EXCEPT !.head = c.head + sz], panic |-> FALSE]

\* _rawread(offset)
_rawread(c, offset) ==
    IF c.buf = <<>> THEN RawPanic
    ELSE
        LET oi == (c.tail + offset) % c.bufsz
            hi == c.head % c.bufsz
            ti == c.tail % c.bufsz
        IN  IF ti < hi
            THEN IF oi >= hi \/ oi < ti THEN RawPanic
                 ELSE RawRes(Idx(oi, hi), <<>>, FALSE)
            ELSE IF oi >= hi /\ oi < ti THEN RawPanic
                 ELSE
                    LET tlen == c.bufsz - ti IN
                    IF tlen > offset
                    THEN RawRes(Idx(oi, c.bufsz), Idx(0, hi), FALSE)
                    ELSE IF ~SliceOk(offset - tlen, hi, c.bufsz)
                    THEN RawPanic
                    ELSE RawRes(Idx(offset - tlen, hi), <<>>, FALSE)

\* _advtail without the test against the bytes in use
_advtail_unchecked(c, sz) ==
    [cb |-> [c EXCEPT !.tail = c.tail + sz], panic |-> FALSE]

\* _advtail(sz)
_advtail(c, sz) ==
    IF sz # 0 /\ (empty(c) \/ used(c) < sz) THEN [cb |-> c, panic |-> TRUE]
    ELSE [cb |-> [c EXCEPT !.tail = c.tail + sz], panic |-> FALSE]

\* p_pg of a circbuf_t that holds no page
NoPage == 0

\* lazy: the pages that cb_ensure got from refpg_new_nozero
ZeroPg == [p_pg |-> NoPage, nacq |-> 0, ups |-> <<>>, downs |-> <<>>,
           nrel |-> 0, lazy |-> {}]

\* the reference count of a frame as the allocator hands it out
AllocRefcnt == 1

\* the page cb_init_phys is handed, by cb_ensure from refpg_new_nozero or by
\* its caller: refup(p_pg); cb.p_pg = p_pg.  The pages are numbered in the
\* order they are acquired
take_page(g) ==
    [g EXCEPT !.p_pg = g.nacq + 1, !.nacq = g.nacq + 1,
              !.ups = Append(@, g.nacq + 1)]

\* cb_ensure on a circbuf without a page: the page of refpg_new_nozero is
\* handed to cb_init_phys
ensure_page(g) == [take_page(g) EXCEPT !.lazy = @ \cup {g.nacq + 1}]

\* cb_release without the test for a circbuf that holds no page
cb_release_unguarded(c, g) ==
    [cb |-> [c EXCEPT !.buf = <<>>, !.head = 0, !.tail = 0],
     pg |-> [g EXCEPT !.downs = Append(@, g.p_pg), !.p_pg = NoPage]]

\* cb_release()
cb_release(c, g) ==
    IF c.buf = <<>> THEN [cb |-> c, pg |-> g]
    ELSE [cb |-> [c EXCEPT !.buf = <<>>, !.head = 0, !.tail = 0],
          pg |-> [g EXCEPT !.downs = Append(@, g.p_pg), !.p_pg = NoPage]]

\* ----------------------------------------------------- circbuf actions

\* the record of a call that starts now
Call(op) == [NoRes EXCEPT !.op = op]

\* the counters stay within the model's bounds
InBounds(c) == c.head <= MaxHead

\* the next n bytes that user sources supply
SrcBytes(n) == [k \in 1..n |-> IF usr = "counting" THEN nsrc + k ELSE 0]

\* the user buffers a copyin may be handed
SrcBufs == {[w |-> w, e |-> e, data |-> SrcBytes(w)] :
                w \in 0..MaxSz, e \in BOOLEAN}

\* the user buffers a copyout may be handed (data: the room they have)
DstBufs == {[w |-> w, e |-> e, data |-> [k \in 1..w |-> 0]] :
                w \in 0..MaxSz, e \in BOOLEAN}

\* what refpg_new_nozero may answer; it is asked only without a page
AllocOutcomes == IF cb.buf = <<>> THEN BOOLEAN ELSE {TRUE}

\* what the counting user side adds to its count for x bytes
Counted(x) == IF usr = "counting" THEN x ELSE 0

\* cb_init(sz) on a fresh circbuf_t
CbInit ==
    /\ cres.op = "none"
    /\ \E sz \in 1..MaxSz :
        /\ cb' = [cb EXCEPT !.bufsz = sz, !.head = 0, !.tail = 0]
        /\ cres' = [Call("cb_init") EXCEPT !.a1 = sz]
    /\ UNCHANGED <<usr, nsrc, acc, nout, nfault, cbpg, noncb>>

\* cb_init_phys(v, p_pg) on a fresh circbuf_t, with a page of sz bytes
CbInitPhys ==
    /\ cres.op = "none"
    /\ \E sz \in 1..MaxRawSz :
        /\ cb' = cb_init_phys(cb, [i \in 1..sz |-> Uninit])
        /\ cres' = [Call("cb_init_phys") EXCEPT !.a1 = sz]
    /\ cbpg' = take_page(cbpg)
    /\ UNCHANGED <<usr, nsrc, acc, nout, nfault, noncb>>

\* the effect of a copyin / copyout call with outcome r
CopyDone(op, max, r) ==
    /\ InBounds(r.cb)
    /\ nfault' = nfault + (IF r.err = 0 - EFAULT THEN 1 ELSE 0)
    /\ nfault' <= MaxFaults
    /\ cb' = (IF r.panic THEN cb ELSE r.cb)
    /\ cbpg' = (IF ~r.panic /\ cb.buf = <<>> /\ r.cb.buf # <<>>
                THEN ensure_page(cbpg) ELSE cbpg)
    /\ cbpg'.nacq <= MaxPages
    /\ cres' = [Call(op) EXCEPT !.panic = r.panic, !.n = r.n, !.err = r.err,
                                !.xfer = r.xfer, !.a1 = max,
                                !.bytes = r.bytes]
    /\ usr' = usr
    /\ UNCHANGED <<noncb>>

CopyIn ==
    /\ cres.op # "none" /\ ~cres.panic
    /\ \E ok \in AllocOutcomes, ub \in SrcBufs :
        LET r == copyin(cb, ok, ub) IN
        /\ CopyDone("copyin", 0, r)
        /\ nsrc' = nsrc + Counted(r.xfer)
        /\ acc' = acc \o SubSeq(r.bytes, 1, Counted(r.n))
        /\ nout' = nout

CopyOut ==
    /\ cres.op # "none" /\ ~cres.panic
    /\ \E ok \in AllocOutcomes, ub \in DstBufs :
        LET r == copyout(cb, ok, ub) IN
        /\ CopyDone("copyout", 0, r)
        /\ nout' = nout + Counted(r.n)
        /\ UNCHANGED <<nsrc, acc>>

CopyOutN ==
    /\ cres.op # "none" /\ ~cres.panic
    /\ \E ok \in AllocOutcomes, ub \in DstBufs, max \in 1..MaxSz :
        LET r == copyout_n(cb, ok, max, ub) IN
        /\ CopyDone("copyout_n", max, r)
        /\ nout' = nout + Counted(r.n)
        /\ UNCHANGED <<nsrc, acc>>

\* cb_release(), any number of times
CbRelease ==
    /\ cres.op # "none" /\ ~cres.panic
    /\ cbpg.nrel < MaxRel
    /\ LET r == cb_release(cb, cbpg) IN
       /\ cb' = r.cb
       /\ cbpg' = [r.pg EXCEPT !.nrel = @ + 1]
    /\ cres' = Call("cb_release")
    /\ UNCHANGED <<usr, nsrc, acc, nout, nfault, noncb>>

AdvHead ==
    /\ cres.op # "none" /\ ~cres.panic
    /\ \E sz \in 0..MaxRawSz :
        LET r == _advhead(cb, sz) IN
        /\ InBounds(r.cb)
        /\ cb' = r.cb
        /\ cres' = [Call("_advhead") EXCEPT !.panic = r.panic, !.a1 = sz]
    /\ UNCHANGED <<usr, nsrc, acc, nout, nfault, cbpg, noncb>>

AdvTail ==
    /\ cres.op # "none" /\ ~cres.panic
    /\ \E sz \in 0..MaxRawSz :
        LET r == _advtail(cb, sz) IN
        /\ cb' = r.cb
        /\ cres' = [Call("_advtail") EXCEPT !.panic = r.panic, !.a1 = sz]
    /\ UNCHANGED <<usr, nsrc, acc, nout, nfault, cbpg, noncb>>

RawWrite ==
    /\ cres.op # "none" /\ ~cres.panic
    /\ \E offset \in 0..MaxRawSz, sz \in 0..MaxRawSz :
        LET r == _rawwrite(cb, offset, sz) IN
        cres' = [Call("_rawwrite") EXCEPT !.panic = r.panic, !.a1 = offset,
                                          !.a2 = sz, !.r1 = r.r1, !.r2 = r.r2]
    /\ UNCHANGED <<cb, usr, nsrc, acc, nout, nfault, cbpg, noncb>>

RawRead ==
    /\ cres.op # "none" /\ ~cres.panic
    /\ \E offset \in 0..MaxRawSz :
        LET r == _rawread(cb, offset) IN
        cres' = [Call("_rawread") EXCEPT !.panic = r.panic, !.a1 = offset,
                                         !.r1 = r.r1, !.r2 = r.r2]
    /\ UNCHANGED <<cb, usr, nsrc, acc, nout, nfault, cbpg, noncb>>

\* -------------------------------------------------------------- passfd_t

\* a nil *Fd_t; the fds are numbered from 1
NilFd == 0

ZeroPf == [cb |-> <<>>, inum |-> 0, cnum |-> 0]

NoPres == [op |-> "none", ok |-> FALSE, fd |-> NilFd, closed |-> <<>>]

\* add without the test for a full ring
add_unchecked(q0, nfd) ==
    LET q == IF q0.cb = <<>>
             THEN [q0 EXCEPT !.cb = [i \in 1..PassfdCap |-> NilFd]]
             ELSE q0
        l == Len(q.cb)
    IN  [pf |-> [q EXCEPT !.cb[(q.inum % l) + 1] = nfd, !.inum = q.inum + 1],
         ok |-> TRUE]

\* add(nfd): the passfd_t after it and the returned flag
add(q0, nfd) ==
    LET q == IF q0.cb = <<>>
             THEN [q0 EXCEPT !.cb = [i \in 1..PassfdCap |-> NilFd]]
             ELSE q0
        l == Len(q.cb)
    IN  IF q.inum - q.cnum = l THEN [pf |-> q, ok |-> FALSE]
        ELSE [pf |-> [q EXCEPT !.cb[(q.inum % l) + 1] = nfd,
                               !.inum = q.inum + 1],
              ok |-> TRUE]

\* take reading the slot after the one cnum names
take_next_slot(q) ==
    LET l == Len(q.cb) IN
    IF q.inum = q.cnum THEN [pf |-> q, fd |-> NilFd, ok |-> FALSE]
    ELSE [pf |-> [q EXCEPT !.cnum = q.cnum + 1],
          fd |-> q.cb[((q.cnum + 1) % l) + 1], ok |-> TRUE]

\* take(): the passfd_t after it, the returned fd and flag
take(q) ==
    LET l == Len(q.cb) IN
    IF q.inum = q.cnum THEN [pf |-> q, fd |-> NilFd, ok |-> FALSE]
    ELSE [pf |-> [q EXCEPT !.cnum = q.cnum + 1],
          fd |-> q.cb[(q.cnum % l) + 1], ok |-> TRUE]

\* closeall with a single take in place of the loop
closeall_once(q, done) ==
    LET t == take(q) IN
    IF ~t.ok THEN [pf |-> t.pf, closed |-> done]
    ELSE [pf |-> t.pf, closed |-> Append(done, t.fd)]

\* closeall(): the loop over take; done are the fds closed so far
RECURSIVE closeall(_, _)
closeall(q, done) ==
    LET t == take(q) IN
    IF ~t.ok THEN [pf |-> t.pf, closed |-> done]
    ELSE closeall(t.pf, Append(done, t.fd))

\* ------------------------------------------------------- passfd actions

\* add of the next fd; the k-th fd accepted is fd k, a refused fd is
\* offered again
Add ==
    /\ Len(added) < MaxAdds
    /\ LET nfd == Len(added) + 1
           r == add(pf, nfd)
       IN  /\ pf' = r.pf
           /\ added' = (IF r.ok THEN Append(added, nfd) ELSE added)
           /\ pres' = [NoPres EXCEPT !.op = "add", !.ok = r.ok, !.fd = nfd]
    /\ UNCHANGED <<taken, nonpf>>

Take ==
    /\ LET r == take(pf) IN
           /\ pf' = r.pf
           /\ taken' = (IF r.ok THEN Append(taken, r.fd) ELSE taken)
           /\ pres' = [NoPres EXCEPT !.op = "take", !.ok = r.ok, !.fd = r.fd]
    /\ UNCHANGED <<added, nonpf>>

CloseAll ==
    /\ LET r == closeall(pf, <<>>) IN
           /\ pf' = r.pf
           /\ taken' = taken \o r.closed
           /\ pres' = [NoPres EXCEPT !.op = "closeall", !.closed = r.closed]
    /\ UNCHANGED <<added, nonpf>>

\* -------------------------------------------------------------- proc_new

Callers == 1..NCallers

\* no process: the nil *Proc_t, and the pid recorded with it
NoPid == 0

\* &common.Proc_t{}: every field at its zero value
ZeroProc == [pid |-> NoPid, tid0 |-> 0, fds |-> <<>>, nfds |-> 0,
             cwd |-> FALSE, started |-> FALSE]

\* a task's locals outside a call: cur0 is pid_cur as the call found it,
\* ncopy and nreopen count the call's copyfd and reopen calls
ZeroLocals == [cur0 |-> 0, np |-> NoPid, tid0 |-> 0, ncopy |-> 0, nreopen |-> 0]

NoRet == [done |-> FALSE, ok |-> FALSE, pid |-> NoPid, tid0 |-> 0]

\* an open parent fd; a copy of it is told from it by the table it sits in
ParentFd == 1

\* the fd tables a parent hands over: each slot nil or open
FdTables == [1..MaxFdSlots -> {NilFd, ParentFd}]

\* the test that lets every task through proclock.Lock at once
lock_ignored(holder) == TRUE

\* proclock.Lock() goes through when nobody holds the lock
lock_free(holder) == holder = 0

\* the limit test that lets one call too many through
over_limit_late(n, lim) == n > lim

\* nthreads >= int64(syslimit.sysprocs)
over_limit(n, lim) == n >= lim

Running == \A t \in Callers : tpc[t] # "panic"

\* proclock.Lock()
Lock(t) ==
    /\ Running
    /\ tpc[t] = "start"
    /\ lock_free(proclock)
    /\ proclock' = t
    /\ tl' = [tl EXCEPT ![t] = [ZeroLocals EXCEPT !.cur0 = pid_cur]]
    /\ tpc' = [tpc EXCEPT ![t] = "check"]
    /\ UNCHANGED <<nthreads, pid_cur, allprocs, pret, emitted, nonproc>>

\* the limit test; over the limit: Unlock and return nil, false
CheckLimit(t) ==
    /\ Running
    /\ tpc[t] = "check"
    /\ IF over_limit(nthreads, SysProcs)
       THEN /\ proclock' = 0
            /\ pret' = [pret EXCEPT ![t] = [NoRet EXCEPT !.done = TRUE]]
            /\ tl' = [tl EXCEPT ![t] = ZeroLocals]
            /\ tpc' = [tpc EXCEPT ![t] = "start"]
       ELSE /\ tpc' = [tpc EXCEPT ![t] = "count"]
            /\ UNCHANGED <<proclock, pret, tl>>
    /\ UNCHANGED <<nthreads, pid_cur, allprocs, emitted, nonproc>>

\* nthreads++
CountThread(t) ==
    /\ Running
    /\ tpc[t] = "count"
    /\ nthreads' = nthreads + 1
    /\ tpc' = [tpc EXCEPT ![t] = "pid"]
    /\ UNCHANGED <<proclock, pid_cur, allprocs, tl, pret, emitted, nonproc>>

\* pid_cur++; np := pid_cur
TakePid(t) ==
    /\ Running
    /\ tpc[t] = "pid"
    /\ pid_cur' = pid_cur + 1
    /\ tl' = [tl EXCEPT ![t].np = pid_cur + 1]
    /\ tpc' = [tpc EXCEPT ![t] = "tid"]
    /\ UNCHANGED <<proclock, nthreads, allprocs, pret, emitted, nonproc>>

\* pid_cur++; tid0 := tid_t(pid_cur)
TakeTid(t) ==
    /\ Running
    /\ tpc[t] = "tid"
    /\ pid_cur' = pid_cur + 1
    /\ tl' = [tl EXCEPT ![t].tid0 = pid_cur + 1]
    /\ tpc' = [tpc EXCEPT ![t] = "insert"]
    /\ UNCHANGED <<proclock, nthreads, allprocs, pret, emitted, nonproc>>

\* panic("pid exists") or allprocs[np] = ret
Insert(t) ==
    /\ Running
    /\ tpc[t] = "insert"
    /\ IF tl[t].np \in DOMAIN allprocs
       THEN /\ tpc' = [tpc EXCEPT ![t] = "panic"]
            /\ UNCHANGED <<allprocs, emitted>>
       ELSE /\ allprocs' = allprocs @@ (tl[t].np :> ZeroProc)
            /\ emitted' = Append(emitted, [pid |-> tl[t].np, tid0 |-> tl[t].tid0])
            /\ tpc' = [tpc EXCEPT ![t] = "unlock"]
    /\ UNCHANGED <<proclock, nthreads, pid_cur, tl, pret, nonproc>>

\* proclock.Unlock()
Unlock(t) ==
    /\ Running
    /\ tpc[t] = "unlock"
    /\ proclock' = 0
    /\ tpc' = [tpc EXCEPT ![t] = "fill"]
    /\ UNCHANGED <<nthreads, pid_cur, allprocs, tl, pret, emitted, nonproc>>

\* the open slots of a parent fd table
OpenSlots(fds) == {i \in DOMAIN fds : fds[i] # NilFd}

\* ret.pid = np and the loop over fds: a nil slot is passed over, copyfd of
\* the slots in copied goes well and of the other open slots fails, nfds
\* counts both
FillFds(t) ==
    /\ Running
    /\ tpc[t] = "fill"
    /\ \E fds \in FdTables : \E copied \in SUBSET OpenSlots(fds) :
         /\ allprocs' = [allprocs EXCEPT ![tl[t].np] =
                [@ EXCEPT !.pid = tl[t].np,
                          !.fds = [i \in DOMAIN fds |->
                                     IF i \in copied THEN fds[i] ELSE NilFd],
                          !.nfds = Cardinality(OpenSlots(fds))]]
         /\ tl' = [tl EXCEPT ![t].ncopy = Cardinality(OpenSlots(fds))]
    /\ tpc' = [tpc EXCEPT ![t] = "cwd"]
    /\ UNCHANGED <<proclock, nthreads, pid_cur, pret, emitted, nonproc>>

\* ret.cwd = cwd and its reopen, ret.tid0 = tid0, the first thread made and
\* started; a reopen or a start that fails panics; return ret, true
StartThread(t) ==
    /\ Running
    /\ tpc[t] = "cwd"
    /\ \E reopened, started \in BOOLEAN :
         IF reopened /\ started
         THEN /\ allprocs' = [allprocs EXCEPT ![tl[t].np] =
                     [@ EXCEPT !.cwd = TRUE, !.tid0 = tl[t].tid0,
                               !.started = TRUE]]
              /\ pret' = [pret EXCEPT ![t] =
                     [done |-> TRUE, ok |-> TRUE, pid |-> tl[t].np,
                      tid0 |-> tl[t].tid0]]
              /\ tl' = [tl EXCEPT ![t] = ZeroLocals]
              /\ tpc' = [tpc EXCEPT ![t] = "start"]
         ELSE /\ allprocs' = [allprocs EXCEPT ![tl[t].np] =
                     [@ EXCEPT !.cwd = TRUE,
                               !.tid0 = IF reopened THEN tl[t].tid0 ELSE @]]
              /\ tl' = [tl EXCEPT ![t].nreopen = 1]
              /\ tpc' = [tpc EXCEPT ![t] = "panic"]
              /\ pret' = pret
    /\ UNCHANGED <<proclock, nthreads, pid_cur, emitted, nonproc>>

\* ------------------------------------------------- trapstub and drivers

INT_KBD == IRQ_BASE + IRQ_KBD

INT_COM1 == IRQ_BASE + IRQ_COM1

\* the vectors whose wake a task of this model waits for with IRQsched
Waited == {INT_KBD, INT_COM1, INT_DISK}

\* tres before any trap
NoTrap == [trapno |-> 0, called |-> FALSE, ret |-> FALSE,
           wakes |-> <<>>, masks |-> <<>>]

\* what a trapstub call does: ret is whether it returns (it spins forever
\* otherwise), wakes the vectors it passes to IRQwake and masks the lines it
\* passes to apic.irq_mask, both in order
StubRes(ret, wakes, masks) ==
    [ret |-> ret, wakes |-> wakes, masks |-> masks]

\* trapstub that wakes the keyboard task for a COM1 interrupt as well
trapstub_com_wakes_kbd(trapno) ==
    IF trapno <= TIMER \/ trapno > IRQ_LAST THEN StubRes(FALSE, <<>>, <<>>)
    ELSE IF trapno \in {INT_KBD, INT_COM1}
         THEN StubRes(TRUE, <<INT_KBD>>, <<trapno - IRQ_BASE>>)
    ELSE IF trapno = INT_DISK \/ trapno \in INT_MSI0..INT_MSI7
         THEN StubRes(TRUE, <<trapno>>, <<>>)
    ELSE StubRes(FALSE, <<>>, <<>>)

\* trapstub that wakes the keyboard task for every unexpected IRQ and returns
trapstub_default_wakes(trapno) ==
    IF trapno <= TIMER \/ trapno > IRQ_LAST THEN StubRes(FALSE, <<>>, <<>>)
    ELSE IF trapno \in {INT_KBD, INT_COM1}
         THEN StubRes(TRUE, <<trapno>>, <<trapno - IRQ_BASE>>)
    ELSE IF trapno = INT_DISK \/ trapno \in INT_MSI0..INT_MSI7
         THEN StubRes(TRUE, <<trapno>>, <<>>)
    ELSE StubRes(TRUE, <<INT_KBD>>, <<>>)

\* trapstub that leaves the IOAPIC alone for every vector
trapstub_never_masks(trapno) ==
    IF trapno <= TIMER \/ trapno > IRQ_LAST THEN StubRes(FALSE, <<>>, <<>>)
    ELSE IF trapno \in {INT_KBD, INT_COM1} \/ trapno = INT_DISK
              \/ trapno \in INT_MSI0..INT_MSI7
         THEN StubRes(TRUE, <<trapno>>, <<>>)
    ELSE StubRes(FALSE, <<>>, <<>>)

\* trapstub(tf), trapno being tf[TF_TRAP]
trapstub(trapno) ==
    IF trapno <= TIMER \/ trapno > IRQ_LAST THEN StubRes(FALSE, <<>>, <<>>)
    ELSE IF trapno \in {INT_KBD, INT_COM1}
         THEN StubRes(TRUE, <<trapno>>, <<trapno - IRQ_BASE>>)
    ELSE IF trapno = INT_DISK \/ trapno \in INT_MSI0..INT_MSI7
         THEN StubRes(TRUE, <<trapno>>, <<>>)
    ELSE StubRes(FALSE, <<>>, <<>>)

\* the elements of a sequence
Range(q) == {q[i] : i \in DOMAIN q}

\* the state after a trapstub call on some CPU
Stub(trapno) ==
    LET r == trapstub(trapno) IN
    /\ tres' = [trapno |-> trapno, called |-> TRUE, ret |-> r.ret,
                wakes |-> r.wakes, masks |-> r.masks]
    /\ twake' = twake \cup (Range(r.wakes) \cap Waited)
    /\ tmask' = tmask \cup Range(r.masks)

\* a trap frame with any trap number reaches trapstub
Trap ==
    /\ \E trapno \in 0..MaxTrap : Stub(trapno)
    /\ UNCHANGED <<tdisk, nontrap>>

\* trap_disk after a spurious interrupt: it returns
disk_spurious == "returned"

\* trap_disk: runtime.IRQsched(intn) returns once the stub posted the wake
DiskSched ==
    /\ tdisk = "irqsched"
    /\ INT_DISK \in twake
    /\ twake' = twake \ {INT_DISK}
    /\ tdisk' = "woken"
    /\ UNCHANGED <<tmask, tres, nontrap>>

\* trap_disk: is this a disk int?
DiskProbe ==
    /\ tdisk = "woken"
    /\ \E intr \in BOOLEAN :
         tdisk' = IF intr THEN "send" ELSE disk_spurious
    /\ UNCHANGED <<twake, tmask, tres, nontrap>>

\* trap_disk: ide_int_done <- true, taken by the task that awaits the disk
DiskDone ==
    /\ tdisk = "send"
    /\ tdisk' = "irqsched"
    /\ UNCHANGED <<twake, tmask, tres, nontrap>>

\* ------------------------------------------------------------ the console

\* doff of a slice whose array is not the array of start
Heap == -1

\* a scancode that the keymap km does not hold
NoKey == -1

\* a byte of a returned slice that its caller has not read yet
Unread == -2

\* a device byte other than a backslash: the device supplies Key(k), k the
\* bytes appended so far (a carriage return, a delete, then letters)
Plain == 0

Key(k) ==
    IF k = 0 THEN CarriageReturn
    ELSE IF k = 1 THEN Delete
    ELSE 32 + (k % 32)

R_READ == "R_READ"

R_WRITE == "R_WRITE"

Readers == 1..NReaders

\* the tasks that call kbd_get where several of them compete: one more
\* than the readers
Getters == 1..(NReaders + 1)

Polls == 1..NPolls

ConsVecs == {INT_KBD, INT_COM1}

\* the sequences over S of length at most n
SeqsUpTo(S, n) == UNION {[1..k -> S] : k \in 0..n}

\* the scancodes the keyboard has ready at one interrupt
KbdBursts == SeqsUpTo({Plain, Backslash, NoKey}, MaxBurst)

\* the bytes COM1 has ready at one interrupt
ComBursts == SeqsUpTo({Plain, Backslash}, MaxBurst)

\* kreg before any request: l of the reqc case; ret of the pollc case,
\* whether it continues, and the pollmsg_t it took
NoReg == [l |-> 0, ret |-> {}, cont |-> FALSE, events |-> {},
          dowait |-> FALSE]

\* the kernel has not panicked
Up == kpc # "panic"

\* the slice data, its array and the record of what was appended
Cur ==
    [data |-> data, doff |-> doff, start |-> start, appended |-> appended,
     panicked |-> FALSE]

\* the byte a device supplies
RawByte(d, raw) == IF raw = Plain THEN Key(Len(d.appended)) ELSE raw

\* addprint(c): append writes in place while the array of data has room and
\* moves data to a new array otherwise
addprint(d, c) ==
    IF Len(d.data) > KeyCap THEN d
    ELSE LET inplace == d.doff # Heap /\ d.doff + Len(d.data) < StartCap IN
         [d EXCEPT !.data = Append(@, c),
                   !.start = IF inplace
                             THEN [@ EXCEPT ![d.doff + Len(d.data) + 1] = c]
                             ELSE @,
                   !.doff = IF inplace THEN @ ELSE Heap,
                   !.appended = Append(@, c),
                   !.panicked = (c = Backslash)]

\* case <- cons.kbd_int: the scancodes that km holds are appended
RECURSIVE kbd_bytes(_, _)
kbd_bytes(d, raws) ==
    IF raws = <<>> \/ d.panicked THEN d
    ELSE LET sc == Head(raws) IN
         kbd_bytes(IF sc # NoKey THEN addprint(d, RawByte(d, sc)) ELSE d,
                   Tail(raws))

\* case <- cons.com_int: \r becomes \n and delete becomes backspace
RECURSIVE com_bytes(_, _)
com_bytes(d, raws) ==
    IF raws = <<>> \/ d.panicked THEN d
    ELSE LET sc == RawByte(d, Head(raws))
             c == IF sc = CarriageReturn THEN Newline
                  ELSE IF sc = Delete THEN Backspace
                  ELSE sc
         IN  com_bytes(addprint(d, c), Tail(raws))

\* reqc that is always nil
reqc_never(dt) == FALSE

\* reqc that is never nil
reqc_always(dt) == TRUE

\* reqc at the end of an iteration: cons.reqc when data is not empty
reqc_after(dt) == Len(dt) # 0

\* pollers.addpoller(&pm)
addpoller(ps, p) == ps \cup {p}

\* pollers.wakeready(R_READ): every poll subscribed is notified and is
\* subscribed no longer (the daemon subscribes polls for R_READ only)
wakeready(ps) == [notified |-> ps, left |-> {}]

\* the end of an iteration of the daemon that has left data as d says, plv
\* being the polls after the case: data = start when data is empty,
\* pollers.wakeready(R_READ) otherwise
LoopTail(d, plv) ==
    /\ data' = d.data
    /\ doff' = IF Len(d.data) = 0 THEN 0 ELSE d.doff
    /\ start' = d.start
    /\ appended' = d.appended
    /\ reqc' = reqc_after(d.data)
    /\ kpc' = "select"
    /\ kreg' = NoReg
    /\ IF Len(d.data) = 0
       THEN /\ pl' = plv
            /\ UNCHANGED <<pollers, woken>>
       ELSE LET w == wakeready(pollers) IN
            /\ pl' = [p \in Polls |->
                        IF p \in w.notified /\ plv[p] = "parked"
                        THEN "idle"
                        ELSE plv[p]]
            /\ woken' = woken \cup w.notified
            /\ pollers' = w.left

\* a console device raises its interrupt while its line is not masked and
\* trapstub runs
Irq(v) ==
    /\ Up
    /\ v - IRQ_BASE \notin tmask
    /\ Stub(v)
    /\ UNCHANGED <<tdisk, consvars, nonio>>

\* as Irq, for the bytes of the ordering runs
ConsIrq(v) ==
    /\ Len(appended) < MaxKeys
    /\ Irq(v)

\* trap_cons: runtime.IRQsched(intn) returns
TrapCons(v) ==
    /\ Up
    /\ tcons[v] = "irqsched"
    /\ v \in twake
    /\ twake' = twake \ {v}
    /\ tcons' = [tcons EXCEPT ![v] = "send"]
    /\ UNCHANGED <<tmask, tres, tdisk, data, doff, start, reqc, pollers,
                   kpc, kreg, rd, pl, appended, delivered, woken, nonio>>

\* the daemon takes ch <- true of trap_cons and handles the interrupt: d is
\* data after the bytes, irq the line that irq_eoi unmasks
ConsInt(v, irq, d) ==
    /\ kpc = "select"
    /\ tcons[v] = "send"
    /\ tcons' = [tcons EXCEPT ![v] = "irqsched"]
    /\ IF d.panicked
       THEN /\ kpc' = "panic"
            /\ data' = d.data
            /\ doff' = d.doff
            /\ start' = d.start
            /\ appended' = d.appended
            /\ UNCHANGED <<tmask, reqc, pollers, pl, kreg, woken>>
       ELSE /\ tmask' = tmask \ {irq}
            /\ LoopTail(d, pl)
    /\ UNCHANGED <<twake, tres, tdisk, rd, delivered, nonio>>

\* the variables that the steps of a trapstub call leave alone
nonstub == <<tdisk, consvars, uio, ff, pmc, cbvars, pfvars, procvars, cpuvars,
             physvars>>

\* a console device raises its interrupt while its line is not masked; the
\* CPU that takes it enters trapstub, which calls runtime.IRQwake first
StubWake(v) ==
    /\ Up
    /\ tstub[v] = "idle"
    /\ v - IRQ_BASE \notin tmask
    /\ twake' = twake \cup (Range(trapstub(v).wakes) \cap Waited)
    /\ tstub' = [tstub EXCEPT ![v] = "irq_mask"]
    /\ UNCHANGED <<tmask, tres, nonstub>>

\* the same trapstub call goes on to apic.irq_mask(irqno) and returns
StubMask(v) ==
    /\ tstub[v] = "irq_mask"
    /\ LET r == trapstub(v) IN
       /\ tmask' = tmask \cup Range(r.masks)
       /\ tres' = [trapno |-> v, called |-> TRUE, ret |-> r.ret,
                   wakes |-> r.wakes, masks |-> r.masks]
    /\ tstub' = [tstub EXCEPT ![v] = "idle"]
    /\ UNCHANGED <<twake, nonstub>>

\* the bytes still to come in the ordering runs
KeysLeft == MaxKeys - Len(appended)

KbdInt ==
    \E raws \in KbdBursts :
        /\ Len(raws) <= KeysLeft
        /\ ConsInt(INT_KBD, IRQ_KBD, kbd_bytes(Cur, raws))

ComInt ==
    \E raws \in ComBursts :
        /\ Len(raws) <= KeysLeft
        /\ ConsInt(INT_COM1, IRQ_COM1, com_bytes(Cur, raws))

\* the keyboard interrupts again and again, one plain key at a time
IrqFlood == Irq(INT_KBD)

KbdFlood == ConsInt(INT_KBD, IRQ_KBD, kbd_bytes(Cur, <<Plain>>))

IdleRd == [pc |-> "idle", cnt |-> 0, off |-> Heap, snap |-> <<>>, k |-> 0]

\* kbd_get(cnt) is called: it panics for a negative cnt and goes to
\* cons.reqc <- cnt otherwise
KbdGet(r) ==
    /\ Up
    /\ rd[r].pc = "idle"
    /\ \E cnt \in -1..MaxCnt :
         IF cnt < 0
         THEN /\ kpc' = "panic"
              /\ UNCHANGED rd
         ELSE /\ rd' = [rd EXCEPT ![r] = [IdleRd EXCEPT !.pc = "send",
                                                        !.cnt = cnt]]
              /\ UNCHANGED kpc
    /\ UNCHANGED <<tcons, data, doff, start, reqc, pollers, kreg, pl,
                   appended, delivered, woken, trapvars, nonio>>

\* l of the reqc case when the request is not looked at
reqlen_whole(l, n) == n

\* l of case l := <- reqc after its if
reqlen(l, n) == IF l > n THEN n ELSE l

\* case l := <- reqc, up to s := data[0:l]
ReqRecv(r) ==
    /\ kpc = "select"
    /\ reqc
    /\ rd[r].pc = "send"
    /\ kreg' = [NoReg EXCEPT !.l = reqlen(rd[r].cnt, Len(data))]
    /\ kpc' = "reply"
    /\ rd' = [rd EXCEPT ![r].pc = "recv"]
    /\ UNCHANGED <<tcons, data, doff, start, reqc, pollers, pl, appended,
                   delivered, woken, trapvars, nonio>>

\* cons.reader <- s meets return <- cons.reader of a caller; then
\* data = data[l:] and the end of the iteration
Reply(r) ==
    /\ kpc = "reply"
    /\ rd[r].pc = "recv"
    /\ LET l == kreg.l
           s == SubSeq(data, 1, l)
       IN  /\ rd' = [rd EXCEPT ![r] = [pc |-> "hold", cnt |-> rd[r].cnt,
                                       off |-> doff, snap |-> s,
                                       k |-> Len(delivered)]]
           /\ delivered' = delivered \o [i \in 1..l |-> Unread]
           /\ LoopTail([Cur EXCEPT !.data = SubSeq(data, l + 1, Len(data)),
                                   !.doff = IF doff = Heap THEN Heap
                                            ELSE doff + l], pl)
    /\ UNCHANGED <<tcons, trapvars, nonio>>

\* the caller of kbd_get reads the bytes of the slice it was handed
Consume(r) ==
    /\ Up
    /\ rd[r].pc = "hold"
    /\ LET h == rd[r]
           seen == IF h.off = Heap THEN h.snap
                   ELSE SubSeq(start, h.off + 1, h.off + Len(h.snap))
       IN  delivered' = [i \in 1..Len(delivered) |->
                     IF i > h.k /\ i <= h.k + Len(seen) THEN seen[i - h.k]
                     ELSE delivered[i]]
    /\ rd' = [rd EXCEPT ![r] = IdleRd]
    /\ UNCHANGED <<tcons, data, doff, start, reqc, pollers, kpc, kreg, pl,
                   appended, woken, trapvars, nonio>>

\* the events a poll may ask for
Events == SUBSET {R_READ, R_WRITE} \ {{}}

\* case pm := <- cons.pollc with every poll subscribed
pollcase_subscribes(pm, dt) ==
    IF R_READ \notin pm.events
    THEN [ret |-> {}, sub |-> TRUE, cont |-> TRUE]
    ELSE [ret |-> IF Len(dt) > 0 THEN {R_READ} ELSE {}, sub |-> TRUE,
          cont |-> FALSE]

\* case pm := <- cons.pollc, up to the send on cons.pollret: the answer,
\* whether pm is subscribed and whether the iteration continues
pollcase(pm, dt) ==
    IF R_READ \notin pm.events
    THEN [ret |-> {}, sub |-> FALSE, cont |-> TRUE]
    ELSE IF Len(dt) > 0
    THEN [ret |-> {R_READ}, sub |-> FALSE, cont |-> FALSE]
    ELSE [ret |-> {}, sub |-> pm.dowait, cont |-> FALSE]

\* a poll sends its pollmsg_t on cons.pollc and the daemon takes it, up to
\* the send on cons.pollret
PollRecv(p) ==
    /\ kpc = "select"
    /\ pl[p] = "idle"
    /\ \E events \in Events, dowait \in BOOLEAN :
         LET c == pollcase([events |-> events, dowait |-> dowait], data) IN
         /\ pollers' = IF c.sub THEN addpoller(pollers, p) ELSE pollers
         /\ kreg' = [l |-> 0, ret |-> c.ret, cont |-> c.cont,
                     events |-> events, dowait |-> dowait]
    /\ kpc' = "pollret"
    /\ pl' = [pl EXCEPT ![p] = "recv"]
    /\ woken' = woken \ {p}
    /\ UNCHANGED <<tcons, data, doff, start, reqc, rd, appended, delivered,
                   trapvars, nonio>>

\* cons.pollret <- ret meets the poll; then continue or the end of the
\* iteration. A poll that was subscribed waits to be notified.
PollRet(p) ==
    /\ kpc = "pollret"
    /\ pl[p] = "recv"
    /\ LET plv == [pl EXCEPT ![p] = IF p \in pollers THEN "parked"
                                    ELSE "idle"]
       IN  IF kreg.cont
           THEN /\ pl' = plv
                /\ kpc' = "select"
                /\ kreg' = NoReg
                /\ UNCHANGED <<data, doff, start, reqc, pollers, appended,
                               woken>>
           ELSE LoopTail(Cur, plv)
    /\ UNCHANGED <<tcons, rd, delivered, trapvars, nonio>>

\* ------------------------------------------------------------ cpus_start

Aps == 1..MaxAp

\* cs before cpus_start is called; found is the AP count it loads
NoCs == [pc |-> "idle", ncpu |-> 0, aplim |-> 0, found |-> 0, apcnt |-> 0,
         i |-> 0]

\* the scheduler width left as it was
width_unset(aplim, old) == old

\* runtime.GOMAXPROCS(1 + aplim)
width(aplim, old) == 1 + aplim

\* cpus_start that tells the cpus to carry on before it maps their stacks
after_publish_first(pc) ==
    IF pc = "sleep" THEN "publish"
    ELSE IF pc = "publish" THEN "stacks"
    ELSE "done"

\* the statement of cpus_start that follows the sleep, the stack loop and
\* the store of the proceed flag
after(pc) ==
    IF pc = "sleep" THEN "stacks"
    ELSE IF pc = "stacks" THEN "publish"
    ELSE "done"

\* apcnt after if apcnt > aplim { apcnt = aplim }
joined(found, aplim) == IF found > aplim THEN aplim ELSE found

\* the pages one iteration of cpus_stack_init maps, counted in pages from
\* stackstart: the interrupt stack, a guard page left unmapped, the NMI
\* stack, a guard page left unmapped
StackPages(i) == {4 * i, 4 * i + 2}

\* cpus_start(ncpu, aplim) up to the test of apcnt
CpusStart ==
    /\ cs.pc = "idle"
    /\ \E ncpu \in 1..(MaxAp + 1), aplim \in 0..MaxAp :
         /\ gomaxprocs' = width(aplim, gomaxprocs)
         /\ cs' = [NoCs EXCEPT !.pc = IF ncpu - 1 = 0 THEN "done"
                                      ELSE "lapic",
                               !.ncpu = ncpu, !.aplim = aplim]
    /\ UNCHANGED <<numcpus, ss, ipis, stk, ap, noncpu>>

\* the lapic page is looked up: panic("lapaddr unmapped") unless it is
\* mapped uncached
LapicCheck ==
    /\ cs.pc = "lapic"
    /\ \E mapped \in BOOLEAN :
         cs' = [cs EXCEPT !.pc = IF mapped THEN "secret" ELSE "panic"]
    /\ UNCHANGED <<gomaxprocs, numcpus, ss, ipis, stk, ap, noncpu>>

\* the stores to secret storage: AP count 0, proceed 0
SecretInit ==
    /\ cs.pc = "secret"
    /\ ss' = [apcnt |-> 0, proceed |-> 0]
    /\ cs' = [cs EXCEPT !.pc = "initipi"]
    /\ UNCHANGED <<gomaxprocs, numcpus, ipis, stk, ap, noncpu>>

\* initipi(true), startupipi(), startupipi()
SendIpi ==
    /\ cs.pc \in {"initipi", "startup1", "startup2"}
    /\ ipis' = Append(ipis, IF cs.pc = "initipi" THEN "init" ELSE "startup")
    /\ cs' = [cs EXCEPT !.pc = IF cs.pc = "initipi" THEN "startup1"
                                ELSE IF cs.pc = "startup1" THEN "startup2"
                                ELSE "sleep"]
    /\ UNCHANGED <<gomaxprocs, numcpus, ss, stk, ap, noncpu>>

\* after the sleep: the AP count is loaded and clamped, set_cpucount
ReadApcnt ==
    /\ cs.pc = "sleep"
    /\ LET n == joined(ss.apcnt, cs.aplim) IN
       /\ cs' = [cs EXCEPT !.pc = after("sleep"), !.found = ss.apcnt,
                           !.apcnt = n]
       /\ numcpus' = n + 1
    /\ UNCHANGED <<gomaxprocs, ss, ipis, stk, ap, noncpu>>

\* cpus_stack_init(apcnt, stackstart), one iteration of its loop at a time
StackInit ==
    /\ cs.pc = "stacks"
    /\ IF cs.i < cs.apcnt
       THEN /\ stk' = stk \cup StackPages(cs.i)
            /\ cs' = [cs EXCEPT !.i = cs.i + 1]
       ELSE /\ cs' = [cs EXCEPT !.pc = after("stacks")]
            /\ UNCHANGED stk
    /\ UNCHANGED <<gomaxprocs, numcpus, ss, ipis, ap, noncpu>>

\* atomic.StoreUintptr(&ss[sproceed], uintptr(apcnt))
Publish ==
    /\ cs.pc = "publish"
    /\ ss' = [ss EXCEPT !.proceed = cs.apcnt]
    /\ cs' = [cs EXCEPT !.pc = after("publish")]
    /\ UNCHANGED <<gomaxprocs, numcpus, ipis, stk, ap, noncpu>>

\* the trampoline of an AP that the STARTUP IPI started: it draws its id
\* from the AP count, which it increments, and spins on the proceed flag
ApJoin(a) ==
    /\ ap[a].pc = "off"
    /\ Len(ipis) >= 2
    /\ ss' = [ss EXCEPT !.apcnt = ss.apcnt + 1]
    /\ ap' = [ap EXCEPT ![a] = [pc |-> "spin", id |-> ss.apcnt + 1]]
    /\ UNCHANGED <<cs, gomaxprocs, numcpus, ipis, stk, noncpu>>

\* the trampoline reads a proceed flag that is not 0: an AP whose id is
\* within the count goes to ap_entry, any other halts
ApProceed(a) ==
    /\ ap[a].pc = "spin"
    /\ ss.proceed # 0
    /\ ap' = [ap EXCEPT ![a].pc = IF ap[a].id <= ss.proceed THEN "entry"
                                  ELSE "halt"]
    /\ UNCHANGED <<cs, gomaxprocs, numcpus, ss, ipis, stk, noncpu>>

\* ---------------------------------------------------- the page allocator

Frames == 0..(respgs - 1)

\* Get_phys skips k pages, once, before the h-th page it returns in the
\* loop of phys_init: idx of iteration i (from 0) of the loop
PageAt(i, h, k) == i + 1 + (IF i + 1 >= h THEN k ELSE 0)

\* where Get_phys skips: among the first MaxHole pages it returns in the
\* loop, which the first allocations pop, or among the last, where the loop
\* runs out of the reserved span
Holes == {h \in 1..(respgs - 1) : h <= MaxHole \/ h >= respgs - MaxHole}

\* int(float64(respgs)*0.01)
BadPages == respgs \div 100

\* the iterations of the loop that reach its end: those before the first
\* whose idx is not below len(physmem.pgs)
Linked(h, k) ==
    IF PageAt(respgs - 2, h, k) < respgs THEN respgs - 1
    ELSE respgs - 1 - k

\* the iteration of the loop of phys_init whose idx is the frame f
IterOf(f, h, k) == IF f < h THEN f - 1 ELSE f - 1 - k

\* phys_init that links a page without giving it the count 0
phys_link_uncounted(i, n, h, k) ==
    [refcnt |-> Sentinel,
     nexti |-> IF i + 1 < n THEN PageAt(i + 1, h, k) ELSE NIL]

\* the frame of iteration i after the loop, n iterations having reached
\* the end of the body: its count is 0 and it is linked to the frame of
\* the next iteration, the last frame to NIL
phys_link(i, n, h, k) ==
    [refcnt |-> 0,
     nexti |-> IF i + 1 < n THEN PageAt(i + 1, h, k) ELSE NIL]

\* phys_init: every frame starts with the sentinel count; frame 0 is the
\* first page of Get_phys; the loop links the pages that follow and stops,
\* or panics with more than BadPages iterations to go, when Get_phys
\* returns a page beyond the reserved span
phys_init(h, k) ==
    LET n == Linked(h, k)
        pgs == [f \in Frames |->
                  IF f = 0
                  THEN [refcnt |-> 0,
                        nexti |-> IF n > 0 THEN PageAt(0, h, k) ELSE NIL]
                  ELSE IF (f < h \/ f >= h + k) /\ IterOf(f, h, k) < n
                  THEN phys_link(IterOf(f, h, k), n, h, k)
                  ELSE [refcnt |-> Sentinel, nexti |-> 0]]
    IN  [pgs |-> pgs,
         panicked |-> n < respgs - 1 /\ respgs - n > BadPages]

PhysInit ==
    /\ ppc = "boot"
    /\ \E h \in Holes, k \in 0..MaxSkip :
         LET r == phys_init(h, k) IN
         /\ physmem' = [pgs |-> r.pgs, freei |-> 0]
         /\ ppc' = IF r.panicked THEN "panic" ELSE "ready"
         /\ flist' = <<0>> \o [i \in 1..Linked(h, k) |-> PageAt(i - 1, h, k)]
    /\ UNCHANGED <<held, pgret, nonphys>>

\* the loop of pgcount, for i := physmem.freei; i != NIL; i = nexti, visits
\* the frames of fl in their order and then ends
Walks(fl) ==
    /\ physmem.freei = IF fl = <<>> THEN NIL ELSE fl[1]
    /\ \A n \in 1..Len(fl) :
         /\ fl[n] # NIL
         /\ physmem.pgs[fl[n]].nexti = IF n < Len(fl) THEN fl[n + 1] ELSE NIL

\* pgret before any alloc
NoPg == [called |-> FALSE, err |-> 0, p |-> NIL]

\* alloc: the head of the free list is popped and its count set to 1; with
\* no frame free it fails with -ENOMEM
alloc ==
    /\ ppc = "ready"
    /\ LET p == physmem.freei IN
       IF p = NIL
       THEN /\ pgret' = [called |-> TRUE, err |-> -ENOMEM, p |-> NIL]
            /\ UNCHANGED <<physmem, held, flist>>
       ELSE /\ Cardinality(held) < MaxHeld
            /\ physmem' = [pgs |-> [physmem.pgs EXCEPT ![p].refcnt = 1],
                           freei |-> physmem.pgs[p].nexti]
            /\ held' = held \cup {p}
            /\ flist' = Tail(flist)
            /\ pgret' = [called |-> TRUE, err |-> 0, p |-> p]
    /\ UNCHANGED <<ppc, nonphys>>

\* refup of a frame that is allocated
refup(p) ==
    /\ ppc = "ready"
    /\ p \in held
    /\ physmem.pgs[p].refcnt < MaxRef
    /\ physmem' = [physmem EXCEPT !.pgs[p].refcnt = @ + 1]
    /\ UNCHANGED <<ppc, held, pgret, flist, nonphys>>

\* refdown of a frame that is allocated: a frame whose count reaches 0 is
\* pushed on the free list
refdown(p) ==
    /\ ppc = "ready"
    /\ p \in held
    /\ LET c == physmem.pgs[p].refcnt - 1 IN
       IF c = 0
       THEN /\ physmem' = [pgs |-> [physmem.pgs EXCEPT
                                      ![p] = [refcnt |-> 0,
                                              nexti |-> physmem.freei]],
                           freei |-> p]
            /\ held' = held \ {p}
            /\ flist' = <<p>> \o flist
       ELSE /\ physmem' = [physmem EXCEPT !.pgs[p].refcnt = c]
            /\ UNCHANGED <<held, flist>>
    /\ UNCHANGED <<ppc, pgret, nonphys>>

\* ----------------------------------------------------------- useriovec_t

\* the user address of entry i of the iovecs of this model: the regions lie
\* apart, in the order of the entries
IovVa(i) == i * (MaxIoSz + 2)

\* the _iove_t arrays iov_init may find in user memory: entry i names the
\* address IovVa(i) and the size sz; ok says whether both words of the
\* entry can be read
IovArrays ==
    UNION {[1..n -> [sz : 0..MaxIoSz, ok : BOOLEAN]] : n \in 0..MaxIovs}

\* an array of more than IovLimit entries
LongArray == [i \in 1..(IovLimit + 1) |-> [sz |-> 1, ok |-> TRUE]]

\* the entry at place i of an array, at its address
At(ents, i) == [uva |-> IovVa(i), sz |-> ents[i].sz]

RECURSIVE SumSz(_)
SumSz(q) == IF q = <<>> THEN 0 ELSE Head(q).sz + SumSz(Tail(q))

\* iov_init(proc, iovarn, niovs): the entries are read in order up to the
\* first that cannot be read; the entries after it stay zero
iov_init(ents) ==
    IF Len(ents) > IovLimit
    THEN [iovs |-> <<>>, tsz |-> 0, err |-> 0 - EINVAL]
    ELSE LET bad == {i \in 1..Len(ents) : ~ents[i].ok}
             n == IF bad = {} THEN Len(ents)
                  ELSE (CHOOSE i \in bad : \A j \in bad : i <= j) - 1
             iovs == [i \in 1..Len(ents) |->
                        IF i <= n THEN At(ents, i) ELSE [uva |-> 0, sz |-> 0]]
         IN  [iovs |-> iovs, tsz |-> SumSz(SubSeq(iovs, 1, n)),
              err |-> IF bad = {} THEN 0 ELSE 0 - EFAULT]

\* remain()
remain(iovs) == SumSz(iovs)

\* a userbuf_t over [uva, uva + sz) that is handed n bytes: it moves bytes
\* up to the first unmapped address and reports -EFAULT when it stops there
ub_tx(uva, sz, n, bad) ==
    LET m == Min(n, sz)
        stop == {k \in 0..(m - 1) : uva + k \in bad}
        c == IF stop = {} THEN m
             ELSE CHOOSE k \in stop : \A j \in stop : k <= j
    IN  [c |-> c, err |-> IF stop = {} THEN 0 ELSE 0 - EFAULT]

\* the entry after c bytes, without moving its address
tx_entry_stays(ciov, c) == [uva |-> ciov.uva, sz |-> ciov.sz - c]

\* ciov.uva += uint(c); ciov.sz -= c
tx_entry(ciov, c) == [uva |-> ciov.uva + c, sz |-> ciov.sz - c]

\* _tx(buf, true): v holds iovs and the bytes placed so far, did the count
RECURSIVE _tx(_, _, _, _)
_tx(v, buf, did, bad) ==
    IF Len(buf) = 0 \/ Len(v.iovs) = 0 THEN [v |-> v, did |-> did, err |-> 0]
    ELSE LET ciov == Head(v.iovs)
             r == ub_tx(ciov.uva, ciov.sz, Len(buf), bad)
             e == tx_entry(ciov, r.c)
             v2 == [iovs |-> IF e.sz = 0 THEN Tail(v.iovs)
                             ELSE <<e>> \o Tail(v.iovs),
                    placed |-> v.placed \o
                        [k \in 1..r.c |-> [va |-> ciov.uva + k - 1,
                                           b |-> buf[k]]]]
         IN  IF r.err # 0
             THEN [v |-> v2, did |-> did + r.c, err |-> r.err]
             ELSE _tx(v2, SubSeq(buf, r.c + 1, Len(buf)), did + r.c, bad)

\* uiowrite(src)
uiowrite(v, src, bad) == _tx(v, src, 0, bad)

\* uio before iov_init
NoIov == [st |-> "new", iovs |-> <<>>, tsz |-> 0, init |-> <<>>, bad |-> {},
          placed |-> <<>>,
          res |-> [len |-> 0, did |-> 0, err |-> 0, rem |-> 0]]

\* the user addresses of the iovecs of this model
IovAddrs == {IovVa(i) + k : i \in 1..MaxIovs, k \in 0..(MaxIoSz - 1)}

\* iov_init on an array in user memory, one address at most being unmapped
IovInit ==
    /\ uio.st = "new"
    /\ \E ents \in IovArrays \cup {LongArray} :
       \E bad \in {{}} \cup {{a} : a \in IovAddrs} :
         LET r == iov_init(ents) IN
         uio' = [NoIov EXCEPT
                   !.st = IF r.err = 0 THEN "ready" ELSE "failed",
                   !.iovs = r.iovs, !.tsz = r.tsz,
                   !.init = [i \in 1..Len(r.iovs) |-> r.iovs[i]],
                   !.bad = bad, !.res.err = r.err]
    /\ UNCHANGED <<ff, pmc, tstub, mainvars>>

\* uiowrite of the next bytes of the stream that the caller writes: the
\* k-th byte of the stream has the value k
UioWrite ==
    /\ uio.st = "ready"
    /\ \E n \in 0..MaxSrc :
         LET src == [k \in 1..n |-> Len(uio.placed) + k]
             r == uiowrite([iovs |-> uio.iovs, placed |-> uio.placed], src,
                           uio.bad)
         IN  uio' = [uio EXCEPT
                       !.iovs = r.v.iovs, !.placed = r.v.placed,
                       !.res = [len |-> n, did |-> r.did, err |-> r.err,
                                rem |-> remain(uio.iovs)]]
    /\ UNCHANGED <<ff, pmc, tstub, mainvars>>

\* ------------------------------------------------------------- _fakefail

\* the words of the hash are cut to their low 16 bits, which the
\* multiplication, the addition and the exclusive or of _pchash compute
\* from the low 16 bits of their operands
HashWidth == 2 ^ 16

RECURSIVE Xor(_, _)
Xor(a, b) ==
    IF a = 0 THEN b
    ELSE IF b = 0 THEN a
    ELSE (((a % 2) + (b % 2)) % 2) + 2 * Xor(a \div 2, b \div 2)

\* _pchash(pcs): ret ^= pc * 1103515245 + 12345, for every pc
RECURSIVE _pchash(_)
_pchash(pcs) ==
    IF pcs = <<>> THEN 0
    ELSE Xor((((Head(pcs) % HashWidth) * (HashMul % HashWidth)) + HashAdd)
                 % HashWidth,
             _pchash(Tail(pcs)))

\* the white-listed functions
oksites == {"main.main", "main.(*common.Proc_t).terminate"}

\* the program counter of a frame
Pc(fr) == fr.pc

\* a frame of a function that is not white-listed, at depth i of a stack
Frame(i) == [fn |-> "f", pc |-> 100 + i]

\* the call stacks of this model, from the caller of the allocator outward:
\* fill + 1 frames, the white-listed function or none, and runtime.goexit
\* at the bottom
Stack(fill, white) ==
    [i \in 1..(fill + 1) |-> Frame(i)]
       \o (IF white = "none" THEN <<>> ELSE <<[fn |-> white, pc |-> 50]>>)
       \o <<[fn |-> "runtime.goexit", pc |-> 60]>>

\* the stacks are shallow, or about as deep as the frames that are recorded
Fills == {0} \cup ((FrameCap - 2)..(FrameCap - 2 + MaxExtra))

Stacks ==
    {Stack(fill, white) : fill \in Fills, white \in oksites \cup {"none"}}

\* runtime.Callers(4, pcs) with pcs of cap entries: the frames recorded
Recorded(stack, cap) == SubSeq(stack, 1, Min(Len(stack), cap))

\* pcs after runtime.Callers: the entries beyond the stack stay 0
Pcs(stack, cap) ==
    [i \in 1..cap |-> IF i <= Len(stack) THEN Pc(stack[i]) ELSE 0]

\* h := _pchash(pcs) of every stack of this model
StackHash == [stack \in Stacks |-> _pchash(Pcs(stack, FrameCap))]

\* the loop over runtime.CallersFrames(pcs): a white-listed function among
\* the frames down to runtime.goexit
Whitelisted(frames) ==
    \E i \in 1..Len(frames) :
        /\ frames[i].fn \in oksites
        /\ \A j \in 1..(i - 1) : frames[j].fn # "runtime.goexit"

\* _fakefail that fails a call stack every time
_fakefail_again(on, sites, stack) ==
    IF ~on THEN [ret |-> FALSE, sites |-> sites, h |-> 0]
    ELSE LET h == StackHash[stack] IN
         [ret |-> ~Whitelisted(Recorded(stack, FrameCap)),
          sites |-> sites \cup {h}, h |-> h]

\* _fakefail(): on is failalloc, sites the keys of failsites; the loop that
\* gets the callers runs once, with 30 entries
_fakefail(on, sites, stack) ==
    IF ~on THEN [ret |-> FALSE, sites |-> sites, h |-> 0]
    ELSE LET h == StackHash[stack] IN
         IF h \notin sites
         THEN [ret |-> ~Whitelisted(Recorded(stack, FrameCap)),
               sites |-> sites \cup {h}, h |-> h]
         ELSE [ret |-> FALSE, sites |-> sites, h |-> h]

\* ff before any call
NoFf == [failalloc |-> FALSE, failsites |-> {}, failed |-> {},
         twice |-> FALSE,
         res |-> [called |-> FALSE, on |-> FALSE, ret |-> FALSE, h |-> 0,
                  stack |-> <<>>]]

\* failalloc is switched on or off
SetFailAlloc ==
    /\ ff' = [ff EXCEPT !.failalloc = ~@]
    /\ UNCHANGED <<uio, pmc, tstub, mainvars>>

\* an allocation calls _fakefail from some call stack
FakeFail ==
    /\ \E stack \in Stacks :
         LET r == _fakefail(ff.failalloc, ff.failsites, stack) IN
         ff' = [ff EXCEPT
                  !.failsites = r.sites,
                  !.failed = IF r.ret THEN @ \cup {r.h} ELSE @,
                  !.twice = @ \/ (r.ret /\ r.h \in ff.failed),
                  !.res = [called |-> TRUE, on |-> ff.failalloc,
                           ret |-> r.ret, h |-> r.h, stack |-> stack]]
    /\ UNCHANGED <<uio, pmc, tstub, mainvars>>

\* ----------------------------------------------------------- intelprof_t

\* event ids: an architectural event, an event of the Xeon 5000 table, and
\* an id that no table holds
PmEvids == {"EV_UNHALTED_CORE_CYCLES", "EV_DTLB_LOAD_MISS_ANY", "EV_NONE"}

\* no event: eventid of a counter never allocated, evtsel of a stopped one
NoEv == "none"

\* ip.events after prof_init: the Xeon 5000 events are added on that model
events(xeon) ==
    {"EV_UNHALTED_CORE_CYCLES"}
       \cup (IF xeon THEN {"EV_DTLB_LOAD_MISS_ANY"} ELSE {})

\* the sequences of events and of counters handed to startpmc and stoppmc
EvSeqs == SeqsUpTo(PmEvids, MaxEvs)

\* pmc before prof_init.  run is the event the evtsel register of a
\* counter selects; ret, ok and started are what the last call returned and
\* the _pmc_start calls it made, in order; own tells for each counter
\* whether a startpmc call returned it and no stoppmc call named it since
NoPmc == [st |-> "new", xeon |-> FALSE, pmcs |-> <<>>, own |-> <<>>,
          res |-> [op |-> "none", evs |-> <<>>, ret |-> <<>>, ok |-> FALSE,
                   started |-> <<>>]]

\* the counters are numbered from 0
Cids(pmcs) == 0..(Len(pmcs) - 1)

\* the counters that are not allocated
FreePmcs(pmcs) == {i \in Cids(pmcs) : ~pmcs[i + 1].alloced}

\* the test for enough counters that always passes
enough_always(cnt, n) == TRUE

\* cnt < len(evs) fails the call
enough(cnt, n) == ~(cnt < n)

\* the loop of startpmc over evs: every event takes the first counter that
\* is not allocated and starts it; an event that finds none takes nothing
RECURSIVE pmc_alloc(_, _, _, _)
pmc_alloc(pmcs, evs, ret, started) ==
    IF evs = <<>> THEN [pmcs |-> pmcs, ret |-> ret, started |-> started]
    ELSE LET eid == Head(evs)
             free == FreePmcs(pmcs)
         IN  IF free = {}
             THEN pmc_alloc(pmcs, Tail(evs), ret, started)
             ELSE LET i == CHOOSE c \in free : \A d \in free : c <= d IN
                  pmc_alloc([pmcs EXCEPT ![i + 1] =
                                 [alloced |-> TRUE, eventid |-> eid,
                                  run |-> eid]],
                            Tail(evs), Append(ret, i),
                            Append(started, [cid |-> i, eid |-> eid]))

\* startpmc(evs): ret is padded with the zeros that make left in it
startpmc(pmcs, evtab, evs) ==
    IF \E k \in 1..Len(evs) : evs[k] \notin evtab
    THEN [pmcs |-> pmcs, ret |-> <<>>, ok |-> FALSE, started |-> <<>>]
    ELSE IF ~enough(Cardinality(FreePmcs(pmcs)), Len(evs))
    THEN [pmcs |-> pmcs, ret |-> <<>>, ok |-> FALSE, started |-> <<>>]
    ELSE LET r == pmc_alloc(pmcs, evs, <<>>, <<>>) IN
         [pmcs |-> r.pmcs,
          ret |-> r.ret \o [k \in 1..(Len(evs) - Len(r.ret)) |-> 0],
          ok |-> TRUE, started |-> r.started]

\* stoppmc(idxs): a counter that is allocated is freed and stopped
RECURSIVE stoppmc(_, _)
stoppmc(pmcs, idxs) ==
    IF idxs = <<>> THEN pmcs
    ELSE LET i == Head(idxs) IN
         stoppmc(IF pmcs[i + 1].alloced
                 THEN [pmcs EXCEPT ![i + 1].alloced = FALSE,
                                   ![i + 1].run = NoEv]
                 ELSE pmcs,
                 Tail(idxs))

\* prof_init(npmc) on a CPU that is or is not of the Xeon 5000 model
ProfInit ==
    /\ pmc.st = "new"
    /\ \E npmc \in 1..MaxPmc, xeon \in BOOLEAN :
         pmc' = [NoPmc EXCEPT
                   !.st = "ready", !.xeon = xeon,
                   !.own = [i \in 1..npmc |-> FALSE],
                   !.pmcs = [i \in 1..npmc |->
                               [alloced |-> FALSE, eventid |-> NoEv,
                                run |-> NoEv]]]
    /\ UNCHANGED <<uio, ff, tstub, mainvars>>

\* a startpmc call, the whole of it under ip.l
StartPmc ==
    /\ pmc.st = "ready"
    /\ \E evs \in EvSeqs :
         LET r == startpmc(pmc.pmcs, events(pmc.xeon), evs) IN
         pmc' = [pmc EXCEPT
                   !.pmcs = r.pmcs,
                   !.own = [i \in DOMAIN pmc.own |->
                              pmc.own[i] \/ (r.ok /\ i - 1 \in Range(r.ret))],
                   !.res = [op |-> "startpmc", evs |-> evs, ret |-> r.ret,
                            ok |-> r.ok, started |-> r.started]]
    /\ UNCHANGED <<uio, ff, tstub, mainvars>>

\* a stoppmc call on counters of the CPU, in the order startpmc returns
\* them
StopPmc ==
    /\ pmc.st = "ready"
    /\ \E idxs \in {s \in SeqsUpTo(Cids(pmc.pmcs), MaxEvs) :
                       \A k \in 1..(Len(s) - 1) : s[k] < s[k + 1]} :
         pmc' = [pmc EXCEPT
                   !.pmcs = stoppmc(pmc.pmcs, idxs),
                   !.own = [i \in DOMAIN pmc.own |->
                              pmc.own[i] /\ i - 1 \notin Range(idxs)],
                   !.res = [op |-> "stoppmc", evs |-> <<>>, ret |-> idxs,
                            ok |-> TRUE, started |-> <<>>]]
    /\ UNCHANGED <<uio, ff, tstub, mainvars>>

\* startnmi: counter 0 is taken for NMI profiling when it is free and the
\* event is known; runtime.SetNMI programs it
StartNmi ==
    /\ pmc.st = "ready"
    /\ \E evid \in PmEvids :
         LET ok == ~pmc.pmcs[1].alloced /\ evid \in events(pmc.xeon) IN
         pmc' = [pmc EXCEPT
                   !.pmcs[1].alloced = IF ok THEN TRUE ELSE @,
                   !.res = [op |-> "startnmi", evs |-> <<evid>>,
                            ret |-> <<>>, ok |-> ok, started |-> <<>>]]
    /\ UNCHANGED <<uio, ff, tstub, mainvars>>

\* stopnmi: counter 0 is given back
StopNmi ==
    /\ pmc.st = "ready"
    /\ pmc' = [pmc EXCEPT
                 !.pmcs[1].alloced = FALSE,
                 !.res = [op |-> "stopnmi", evs |-> <<>>, ret |-> <<>>,
                          ok |-> TRUE, started |-> <<>>]]
    /\ UNCHANGED <<uio, ff, tstub, mainvars>>

\* ------------------------------------------------------- specifications

\* a fresh circbuf_t and a user side of the given kind
InitCb(kind) ==
    /\ cb = ZeroCb
    /\ usr = kind
    /\ nsrc = 0
    /\ acc = <<>>
    /\ nout = 0
    /\ nfault = 0
    /\ cres = NoRes
    /\ cbpg = ZeroPg

\* a fresh passfd_t
InitPf ==
    /\ pf = ZeroPf
    /\ added = <<>>
    /\ taken = <<>>
    /\ pres = NoPres

\* no process yet, the counters at zero, every task about to call proc_new
InitProc ==
    /\ proclock = 0
    /\ nthreads = 0
    /\ pid_cur = 0
    /\ allprocs = <<>>
    /\ tpc = [t \in Callers |-> "start"]
    /\ tl = [t \in Callers |-> ZeroLocals]
    /\ pret = [t \in Callers |-> NoRet]
    /\ emitted = <<>>

\* no trap yet, every line unmasked, trap_disk about to wait
InitTrap ==
    /\ twake = {}
    /\ tmask = {}
    /\ tres = NoTrap
    /\ tdisk = "irqsched"

\* kbd_init is done: both lines unmasked, the daemon at its select with
\* data = start, the trap_cons tasks about to wait
InitCons ==
    /\ tcons = [v \in ConsVecs |-> "irqsched"]
    /\ data = <<>>
    /\ doff = 0
    /\ start = [i \in 1..StartCap |-> 0]
    /\ reqc = FALSE
    /\ pollers = {}
    /\ kpc = "select"
    /\ kreg = NoReg
    /\ rd = [r \in Getters |-> IdleRd]
    /\ pl = [p \in Polls |-> "idle"]
    /\ appended = <<>>
    /\ delivered = <<>>
    /\ woken = {}

\* before cpus_start: one CPU runs, no AP is started, no AP stack is
\* mapped; secret storage is the old boot loader page, each of its words
\* one of words
InitCpus(words) ==
    /\ cs = NoCs
    /\ gomaxprocs = 1
    /\ numcpus = 1
    /\ ss \in [apcnt : words, proceed : words]
    /\ ipis = <<>>
    /\ stk = {}
    /\ ap = [a \in Aps |-> [pc |-> "off", id |-> 0]]

\* before phys_init
InitPhys ==
    /\ physmem = [pgs |-> <<>>, freei |-> 0]
    /\ ppc = "boot"
    /\ held = {}
    /\ pgret = NoPg
    /\ flist = <<>>

InitUio == uio = NoIov

InitFf == ff = NoFf

InitPmc == pmc = NoPmc

InitAux ==
    /\ InitUio
    /\ InitFf
    /\ InitPmc
    /\ tstub = [v \in ConsVecs |-> "idle"]

\* copyin and copyout on one circbuf, every byte told apart
NextCopy ==
    \/ CbInit
    \/ CopyIn
    \/ CopyOut
    \/ CopyOutN

InitCopy ==
    /\ InitCb("counting")
    /\ InitPf
    /\ InitProc
    /\ InitTrap
    /\ InitCons
    /\ InitCpus({0})
    /\ InitPhys
    /\ InitAux

SpecCopy == InitCopy /\ [][NextCopy]_vars

\* copies mixed with explicit advances of head and tail
NextCirc ==
    \/ CbInit
    \/ CopyIn
    \/ CopyOut
    \/ CopyOutN
    \/ AdvHead
    \/ AdvTail

\* a circbuf that is set up, used and released over and over
NextRel ==
    \/ CbInit
    \/ CbInitPhys
    \/ CopyIn
    \/ CopyOut
    \/ CbRelease

\* the start of the specifications that do not look at the bytes
Init ==
    /\ InitCb("zeros")
    /\ InitPf
    /\ InitProc
    /\ InitTrap
    /\ InitCons
    /\ InitCpus({0})
    /\ InitPhys
    /\ InitAux

SpecCirc == Init /\ [][NextCirc]_vars

SpecRel == Init /\ [][NextRel]_vars

\* an iovec that is set up and written through
NextUio ==
    \/ IovInit
    \/ UioWrite

SpecUio == Init /\ [][NextUio]_vars

\* allocations with failure injection switched on and off
NextFf ==
    \/ SetFailAlloc
    \/ FakeFail

SpecFf == Init /\ [][NextFf]_vars

\* the profiler: counters started and stopped, NMI profiling on and off
NextPmc ==
    \/ ProfInit
    \/ StartPmc
    \/ StopPmc
    \/ StartNmi
    \/ StopNmi

SpecPmc == Init /\ [][NextPmc]_vars

\* the raw interface on a circbuf that was given its page: slices from
\* _rawwrite / _rawread, committed by _advhead / _advtail
NextRaw ==
    \/ CbInitPhys
    \/ AdvHead
    \/ AdvTail
    \/ RawWrite
    \/ RawRead

SpecRaw == Init /\ [][NextRaw]_vars

\* the fd pass queue
NextPassfd ==
    \/ Add
    \/ Take
    \/ CloseAll

SpecPassfd == Init /\ [][NextPassfd]_vars

\* tasks calling proc_new over and over, a step at a time
NextProc ==
    \E t \in Callers :
        \/ Lock(t)
        \/ CheckLimit(t)
        \/ CountThread(t)
        \/ TakePid(t)
        \/ TakeTid(t)
        \/ Insert(t)
        \/ Unlock(t)
        \/ FillFds(t)
        \/ StartThread(t)

SpecProc == Init /\ [][NextProc]_vars

\* trap frames of every kind are fed to trapstub while trap_disk runs
NextTrap ==
    \/ Trap
    \/ DiskSched
    \/ DiskProbe
    \/ DiskDone

SpecTrap == Init /\ [][NextTrap]_vars

\* the console: interrupts and kbd_get callers against the daemon
NextCons ==
    \/ \E v \in ConsVecs :
         \/ ConsIrq(v)
         \/ TrapCons(v)
    \/ KbdInt
    \/ ComInt
    \/ \E r \in Readers :
         \/ KbdGet(r)
         \/ ReqRecv(r)
         \/ Reply(r)
         \/ Consume(r)

SpecCons == Init /\ [][NextCons]_vars

\* the console with polls as well, and one caller of kbd_get
NextPoll ==
    \/ \E v \in ConsVecs :
         \/ ConsIrq(v)
         \/ TrapCons(v)
    \/ KbdInt
    \/ ComInt
    \/ \E r \in {1} :
         \/ KbdGet(r)
         \/ ReqRecv(r)
         \/ Reply(r)
         \/ Consume(r)
    \/ \E p \in Polls :
         \/ PollRecv(p)
         \/ PollRet(p)

SpecPoll == Init /\ [][NextPoll]_vars

\* the console interrupts with the trap stub on one CPU, and the trap_cons
\* tasks and the daemon on others
NextIrq ==
    \/ \E v \in ConsVecs :
         \/ StubWake(v)
         \/ StubMask(v)
         \/ TrapCons(v)
    \/ KbdInt
    \/ ComInt

SpecIrq == Init /\ [][NextIrq]_vars

\* several tasks call kbd_get while the keyboard interrupts
NextGet ==
    \/ ConsIrq(INT_KBD)
    \/ TrapCons(INT_KBD)
    \/ KbdInt
    \/ \E r \in Getters :
         \/ KbdGet(r)
         \/ ReqRecv(r)
         \/ Reply(r)
         \/ Consume(r)

SpecGet == Init /\ [][NextGet]_vars

\* the console under fair scheduling: a trap_cons task whose wake is
\* posted runs, a reader the daemon sends to receives, and the select of
\* the daemon, which picks at random among the cases that are ready, does
\* not pass over a case that is ready again and again. Devices need not
\* interrupt and tasks need not call kbd_get.
Fairness ==
    /\ \A v \in ConsVecs : WF_vars(TrapCons(v))
    /\ SF_vars(KbdInt)
    /\ SF_vars(ComInt)
    /\ \A r \in Readers : SF_vars(ReqRecv(r)) /\ WF_vars(Reply(r))

\* the console where every task calls kbd_get once and keeps what it got
NextLive ==
    \/ \E v \in ConsVecs :
         \/ ConsIrq(v)
         \/ TrapCons(v)
    \/ KbdInt
    \/ ComInt
    \/ \E r \in Readers :
         \/ KbdGet(r)
         \/ ReqRecv(r)
         \/ Reply(r)

SpecLive == Init /\ [][NextLive]_vars /\ Fairness

\* the console with nobody reading: key after key
NextFlood ==
    \/ IrqFlood
    \/ \E v \in {INT_KBD} : TrapCons(v)
    \/ KbdFlood

SpecFlood == Init /\ [][NextFlood]_vars

\* cpus_start on the BSP while the APs come up
NextCpus ==
    \/ CpusStart
    \/ LapicCheck
    \/ SecretInit
    \/ SendIpi
    \/ ReadApcnt
    \/ StackInit
    \/ Publish
    \/ \E a \in Aps :
         \/ ApJoin(a)
         \/ ApProceed(a)

\* the boot loader left zeros or not in the words of secret storage
InitBoot ==
    /\ InitCb("zeros")
    /\ InitPf
    /\ InitProc
    /\ InitTrap
    /\ InitCons
    /\ InitCpus({0, 1})
    /\ InitPhys
    /\ InitAux

SpecCpus == InitBoot /\ [][NextCpus]_vars

\* phys_init, then allocations and frees
NextPhys ==
    \/ PhysInit
    \/ alloc
    \/ \E p \in held :
         \/ refup(p)
         \/ refdown(p)

SpecPhys == Init /\ [][NextPhys]_vars


\* --------------------------------------------------------- circbuf claims

\* the ring indices of the live data [tail, head)
Live(c) == {p % c.bufsz : p \in c.tail..(c.head - 1)}

\* the ring indices of the n positions from counter value from on
Window(c, from, n) == [k \in 1..n |-> (from + k - 1) % c.bufsz]

IsCopyOut(r) == r.op \in {"copyout", "copyout_n"} /\ ~r.panic

\* C1: the bytes copyout hands over, call after call, are the bytes copyin
\* took, in the same order and each once: every copyout returns the next
\* cres.n bytes of acc after the nout - cres.n handed over before it.
C1_DeliveredIsPrefixOfAccepted ==
    /\ nout <= Len(acc)
    /\ IsCopyOut(cres) /\ nout <= Len(acc) =>
           SubSeq(cres.bytes, 1, cres.n) = SubSeq(acc, nout - cres.n + 1, nout)

\* C1 holds of the runs in which no user buffer has faulted
C1_WithoutFaults == nfault = 0 => C1_DeliveredIsPrefixOfAccepted

\* C1, its case: with no fault so far, a copyout hands over two bytes that
\* were stored after the ring wrapped
C1_Witness ==
    /\ nfault = 0
    /\ IsCopyOut(cres)
    /\ cres.n = 2
    /\ nout > cb.bufsz
    /\ cb.tail % cb.bufsz = 1

\* the four circbuf invariants of C2
CbInv(c) ==
    /\ c.tail <= c.head
    /\ c.head - c.tail <= c.bufsz
    /\ empty(c) <=> c.head = c.tail
    /\ full(c) <=> c.head - c.tail = c.bufsz

C3_CountersFollowTransfer ==
    [][/\ (cres'.op = "copyin" /\ ~cres'.panic /\ cb.buf # <<>>) =>
            cb'.head - cb.head = cres'.xfer /\ cres'.n = cres'.xfer
       /\ (IsCopyOut(cres') /\ cb.buf # <<>>) =>
            cb'.tail - cb.tail = cres'.xfer /\ cres'.n = cres'.xfer]_vars

\* C28: a copyout_n(dst, max) with max > 0 advances tail by at most max and
\* the user buffer moves at most max bytes during it, also when the live
\* data is handed over in two segments; a copyout is copyout_n with max 0:
\* no limit applies to it, tail advances by what it returns, and it returns
\* less than the live data only when the user buffer took no more.
C28_CopyoutAtMostMax ==
    [][/\ (cres'.op = "copyout_n" /\ ~cres'.panic) =>
            /\ cres'.a1 > 0
            /\ cb'.tail - cb.tail <= cres'.a1
            /\ cres'.n <= cres'.a1
            /\ cb.buf # <<>> => cb'.tail - cb.tail = cres'.n
            /\ cres'.xfer <= cres'.a1
            /\ Len(cres'.bytes) <= cres'.a1
       /\ (cres'.op = "copyout" /\ ~cres'.panic /\ cb.buf # <<>>) =>
            /\ cres'.a1 = 0
            /\ cb'.tail - cb.tail = cres'.n
            /\ cres'.xfer <= used(cb)
            /\ (cres'.err = 0 /\ cres'.n < used(cb)) =>
                   \A ub \in DstBufs :
                       LET r == copyout(cb, TRUE, ub) IN
                       (r.err = 0 /\ r.n = cres'.n) => ub.w = cres'.n]_vars

\* C28, its case: a copyout_n returned max bytes that lay on both sides of
\* the end of the ring, and left live data behind
C28_Witness ==
    /\ cres.op = "copyout_n" /\ ~cres.panic
    /\ cres.n = cres.a1
    /\ cres.n >= 2
    /\ ((cb.tail - cres.n) % cb.bufsz) + cres.n > cb.bufsz
    /\ ~empty(cb)

\* the calls that go through cb_ensure
IsCopy(r) == r.op \in {"copyin", "copyout", "copyout_n"} /\ ~r.panic

\* C24: cb_init leaves the circbuf without a page; a copyin, copyout or
\* copyout_n on a circbuf without a page returns (0, -ENOMEM) and leaves
\* head, tail, bufsz and the absent buffer as they were when the allocation
\* fails, and otherwise leaves the circbuf with a page of bufsz bytes; a
\* circbuf that cb_init set up and that has no page takes a byte in the next
\* copyin for which a page is there.
C24_LazyPage ==
    /\ [][/\ cres'.op = "cb_init" => cb'.buf = <<>> /\ cb'.bufsz = cres'.a1
          /\ (IsCopy(cres') /\ cb.buf = <<>>) =>
               IF cres'.err = 0 - ENOMEM
               THEN cres'.n = 0 /\ cres'.xfer = 0 /\ cb' = cb
               ELSE Len(cb'.buf) = cb.bufsz /\ cb'.bufsz = cb.bufsz
          /\ (IsCopy(cres') /\ cb.buf # <<>>) =>
               cres'.err # 0 - ENOMEM /\ cb'.buf # <<>>]_vars
    /\ []((cres.op # "none" /\ ~cres.panic /\ cb.buf = <<>>) =>
            LET r == copyin(cb, TRUE, [w |-> 1, e |-> FALSE, data |-> <<0>>])
            IN  r.n = 1 /\ r.err = 0 /\ ~r.panic /\ r.cb.buf # <<>>)

\* C24, its case: a copyin got no page after _advhead had moved head of
\* the circbuf that cb_init set up
C24_Witness ==
    /\ cres.op = "copyin"
    /\ cres.err = 0 - ENOMEM
    /\ cb.buf = <<>>
    /\ cb.bufsz > 0
    /\ cb.head > 0

\* C25: a cb_release on a circbuf that holds no page changes nothing; a
\* cb_release on one that holds a page passes that page to refdown once and
\* leaves head = tail = 0 and no page; so however many cb_release calls
\* follow one acquisition, the pages passed to refdown are the pages
\* acquired and given up, each once and in order; a copyin or copyout on a
\* released circbuf that gets a page gets one not held before.
C25_ReleaseOnce ==
    /\ [][/\ cres'.op = "cb_release" =>
               /\ cb'.buf = <<>>
               /\ cbpg'.p_pg = NoPage
               /\ cbpg'.ups = cbpg.ups
               /\ IF cb.buf = <<>>
                  THEN cb' = cb /\ cbpg'.downs = cbpg.downs
                  ELSE /\ cb'.head = 0 /\ cb'.tail = 0
                       /\ cb'.bufsz = cb.bufsz
                       /\ cbpg'.downs = Append(cbpg.downs, cbpg.p_pg)
          /\ (IsCopy(cres') /\ cb.buf = <<>> /\ cb'.buf # <<>>) =>
               /\ cbpg'.p_pg \notin Range(cbpg.ups)
               /\ cbpg'.p_pg # NoPage
               /\ cbpg'.downs = cbpg.downs]_vars
    /\ [](/\ Len(cbpg.downs) <= Len(cbpg.ups)
          /\ cbpg.downs = SubSeq(cbpg.ups, 1, Len(cbpg.downs))
          /\ Len(cbpg.ups) - Len(cbpg.downs)
                = (IF cb.buf # <<>> THEN 1 ELSE 0)
          /\ Cardinality(Range(cbpg.ups)) = Len(cbpg.ups)
          /\ NoPage \notin Range(cbpg.ups)
          /\ cbpg.p_pg = (IF cb.buf # <<>> THEN cbpg.ups[Len(cbpg.ups)]
                          ELSE NoPage))

\* C25, its case: three cb_release calls, the last on a circbuf without a
\* page, and two pages acquired, the first of them through cb_init_phys,
\* each passed to refdown once
C25_Witness ==
    /\ cres.op = "cb_release"
    /\ cbpg.nrel = 3
    /\ cbpg.nacq = 2
    /\ cbpg.downs = <<1, 2>>
    /\ cb.bufsz > 0

\* how often p is in the sequence q
RECURSIVE Times(_, _)
Times(p, q) ==
    IF q = <<>> THEN 0
    ELSE (IF Head(q) = p THEN 1 ELSE 0) + Times(p, Tail(q))

\* the reference count of a page the circbuf got from the allocator: the
\* count the allocator gave it, raised by every refup and lowered by every
\* refdown the circbuf passed it to
RefCnt(p) == AllocRefcnt + Times(p, cbpg.ups) - Times(p, cbpg.downs)

\* the pages cb_ensure acquired that cb_release has given up
GivenBack == cbpg.lazy \cap Range(cbpg.downs)

\* C35: with the allocator handing out frames at the count 1, a page that
\* cb_ensure acquired for a copyin or copyout and that cb_release gave up
\* has the reference count 0, at which the allocator puts the frame back
\* on its free list.
C35_PageGivenBack == \A p \in GivenBack : RefCnt(p) = 0

\* C35, the part that holds: for a page that cb_ensure acquired and
\* cb_release gave up the circbuf called refup once and refdown once, so the
\* page is left with the count the allocator gave it; a page it still
\* holds is one above that.
C35_PageKeepsAllocCount ==
    /\ \A p \in GivenBack :
         /\ Times(p, cbpg.ups) = 1
         /\ Times(p, cbpg.downs) = 1
         /\ RefCnt(p) = AllocRefcnt
    /\ \A p \in cbpg.lazy \ Range(cbpg.downs) :
         /\ p = cbpg.p_pg
         /\ RefCnt(p) = AllocRefcnt + 1

\* C35, its case: a copy on a circbuf from cb_init made cb_ensure acquire
\* page 1, the only page so far, and cb_release has given it up
C35_Witness ==
    /\ cres.op = "cb_release"
    /\ 1 \in GivenBack
    /\ cbpg.p_pg = NoPage
    /\ cb.buf = <<>>
    /\ RefCnt(1) = 1
    /\ cbpg.ups = <<1>>
    /\ cbpg.downs = <<1>>

\* C4: a _rawwrite that returns hands out exactly the sz ring positions
\* from head + offset on, none of which holds live data.
C4_RawWriteOutsideLive ==
    (cres.op = "_rawwrite" /\ ~cres.panic) =>
        LET got == cres.r1 \o cres.r2 IN
        /\ got = Window(cb, cb.head + cres.a1, cres.a2)
        /\ \A i \in 1..Len(got) : got[i] \notin Live(cb)

\* C5: a _rawread that returns hands out exactly the live positions from
\* tail + offset up to head; on an empty circbuf that is no position.
C5_RawReadInsideLive ==
    (cres.op = "_rawread" /\ ~cres.panic) =>
        cres.r1 \o cres.r2 =
            Window(cb, cb.tail + cres.a1, used(cb) - cres.a1)

\* ----------------------------------------------------------- iovec claims

\* the user addresses of the regions of the entries, one after the other
RECURSIVE Concat(_)
Concat(ents) ==
    IF ents = <<>> THEN <<>>
    ELSE [k \in 1..Head(ents).sz |-> Head(ents).uva + k - 1]
            \o Concat(Tail(ents))

\* a scalar write of the first n bytes of the stream over the regions of the
\* entries laid end to end
ScalarWrite(ents, n) ==
    [k \in 1..n |-> [va |-> Concat(ents)[k], b |-> k]]

\* C21: the bytes written through a useriovec_t, call after call, lie in
\* user memory where a scalar write of as many bytes over the regions of
\* the entries laid end to end puts them, so the entries are filled in
\* order; iovs is what is left of the entries: the entries not reached yet
\* as iov_init read them and, before them, the entry being filled unless
\* nothing of it is left; remain() is totalsz() less the bytes placed so
\* far; and every uiowrite returns the number of bytes it placed.
C21_IovecAsScalar ==
    /\ [](uio.st = "ready" =>
            LET done == Len(uio.placed)
                gone == Len(uio.init) - Len(uio.iovs)
            IN  /\ done <= uio.tsz
                /\ uio.placed = ScalarWrite(uio.init, done)
                /\ remain(uio.iovs) = uio.tsz - done
                /\ gone >= 0
                /\ \A i \in 2..Len(uio.iovs) : uio.iovs[i] = uio.init[gone + i]
                /\ uio.iovs # <<>> =>
                     LET cur == uio.iovs[1]
                         was == uio.init[gone + 1]
                     IN  /\ cur.uva + cur.sz = was.uva + was.sz
                         /\ cur.sz <= was.sz
                         /\ cur.sz = 0 => was.sz = 0)
    /\ [][(uio.st = "ready" /\ uio'.st = "ready") =>
            /\ uio'.res.did = Len(uio'.placed) - Len(uio.placed)
            /\ uio'.res.did <= uio'.res.len
            /\ uio'.res.err = 0 =>
                  uio'.res.did = Min(uio'.res.len, remain(uio.iovs))]_vars

\* C21, its case: a uiowrite of three bytes that filled what was left of
\* one entry, passed an entry of size 0 and stopped inside a third
C21_Witness ==
    /\ uio.st = "ready"
    /\ Len(uio.init) = 3
    /\ uio.init[2].sz = 0
    /\ uio.res.len = 3
    /\ uio.res.did = 2
    /\ uio.res.err # 0
    /\ Len(uio.placed) = 3
    /\ Len(uio.iovs) = 1
    /\ uio.iovs[1].sz = 1

\* -------------------------------------------------------- _fakefail claims

\* a white-listed function is somewhere on the call stack
OnStack(stack) == \E i \in 1..Len(stack) : stack[i].fn \in oksites

\* C26: _fakefail returns false while failalloc is off; it returns true at
\* most once for a call-stack hash over the whole run; and it never returns
\* true for a call stack on which a white-listed function lies.
C26_NeverFailsWhitelisted ==
    /\ ~ff.twice
    /\ ff.res.called =>
         /\ ~ff.res.on => ~ff.res.ret
         /\ ff.res.ret => ~OnStack(ff.res.stack)

\* C26 for the frames that _fakefail looks at: it never returns true for a
\* call stack with a white-listed function among its first FrameCap frames
C26_NeverFailsRecorded ==
    /\ ~ff.twice
    /\ ff.failed \subseteq ff.failsites
    /\ ff.res.called =>
         /\ ~ff.res.on => ~ff.res.ret /\ ff.res.h = 0
         /\ ff.res.ret => ~OnStack(Recorded(ff.res.stack, FrameCap))
         /\ ff.res.ret => ff.res.h \in ff.failed

\* C26, its case: with failalloc on, a stack whose last recorded frame is
\* main.main was not failed on its first call, after another stack was
C26_Witness ==
    /\ ff.res.called /\ ff.res.on /\ ~ff.res.ret
    /\ Len(ff.res.stack) > FrameCap
    /\ ff.res.stack[FrameCap].fn = "main.main"
    /\ ff.failed # {}
    /\ ff.res.h \notin ff.failed

\* ---------------------------------------------------------- startpmc claims

\* C27: a startpmc call returns false exactly when an event id is not in
\* the table or fewer counters are free than there are events, and then no
\* counter changes and none is started; a call that returns true returns
\* len(evs) counters that were free before it, in increasing order and so
\* pairwise distinct, the k-th allocated to and started with the k-th
\* event, and changes no other counter.
C27_StartAllOrNothing ==
    [][(pmc'.res.op = "startpmc" /\ pmc.st = "ready") =>
         LET evs == pmc'.res.evs
             ret == pmc'.res.ret
             short == Cardinality(FreePmcs(pmc.pmcs)) < Len(evs)
             unknown == \E k \in 1..Len(evs) :
                            evs[k] \notin events(pmc.xeon)
         IN  /\ pmc'.res.ok <=> ~(short \/ unknown)
             /\ ~pmc'.res.ok =>
                  /\ pmc'.pmcs = pmc.pmcs
                  /\ pmc'.res.started = <<>>
                  /\ ret = <<>>
             /\ pmc'.res.ok =>
                  /\ Len(ret) = Len(evs)
                  /\ \A k \in 1..Len(ret) :
                       /\ ret[k] \in FreePmcs(pmc.pmcs)
                       /\ pmc'.pmcs[ret[k] + 1] =
                            [alloced |-> TRUE, eventid |-> evs[k],
                             run |-> evs[k]]
                       /\ \A j \in 1..(k - 1) : ret[j] < ret[k]
                  /\ pmc'.res.started =
                       [k \in 1..Len(evs) |-> [cid |-> ret[k], eid |-> evs[k]]]
                  /\ \A i \in Cids(pmc.pmcs) \ Range(ret) :
                       pmc'.pmcs[i + 1] = pmc.pmcs[i + 1]]_vars

\* C27, its case: a call for two different events took counters 0 and 1,
\* which an earlier call had held for other events
C27_Witness ==
    /\ pmc.res.op = "startpmc"
    /\ pmc.res.ok
    /\ pmc.res.ret = <<0, 1>>
    /\ pmc.res.evs = <<"EV_DTLB_LOAD_MISS_ANY", "EV_UNHALTED_CORE_CYCLES">>

\* C34: a counter that a successful startpmc returned stays allocated
\* until a stoppmc call names its index: no startpmc, stoppmc, startnmi or
\* stopnmi call in between frees it, and no startpmc call in between
\* returns it again.
C34_AllocatedUntilStopped ==
    /\ [](\A i \in DOMAIN pmc.own : pmc.own[i] => pmc.pmcs[i].alloced)
    /\ [][(pmc'.res.op = "startpmc" /\ pmc'.res.ok /\ pmc.st = "ready") =>
            \A k \in 1..Len(pmc'.res.ret) :
                ~pmc.own[pmc'.res.ret[k] + 1]]_vars

\* C34, the part that holds: every counter but counter 0 stays allocated
\* from the startpmc call that returned it to the stoppmc call that names
\* it, and no startpmc call in between returns it; stopnmi frees counter 0
\* and no other.
C34_AllocatedButCounter0 ==
    /\ [](\A i \in DOMAIN pmc.own :
              (pmc.own[i] /\ i # 1) => pmc.pmcs[i].alloced)
    /\ [][(pmc'.res.op = "startpmc" /\ pmc'.res.ok /\ pmc.st = "ready") =>
            \A k \in 1..Len(pmc'.res.ret) :
                pmc'.res.ret[k] # 0 => ~pmc.own[pmc'.res.ret[k] + 1]]_vars
    /\ [][(pmc'.res.op = "stopnmi" /\ pmc.st = "ready") =>
            /\ ~pmc'.pmcs[1].alloced
            /\ \A i \in DOMAIN pmc.pmcs :
                 i # 1 => pmc'.pmcs[i] = pmc.pmcs[i]]_vars

\* C34, its case: a second startpmc call was handed counter 0, which an
\* earlier startpmc call returned and no stoppmc call has named since
C34_Witness ==
    /\ pmc.res.op = "startpmc"
    /\ pmc.res.ok
    /\ pmc.res.ret = <<0>>
    /\ pmc.pmcs[1].eventid = "EV_DTLB_LOAD_MISS_ANY"
    /\ pmc.pmcs[1].run = "EV_DTLB_LOAD_MISS_ANY"
    /\ Len(pmc.pmcs) = 2
    /\ pmc.own = <<TRUE, TRUE>>
    /\ pmc.pmcs[2].eventid = "EV_UNHALTED_CORE_CYCLES"

\* ------------------------------------------------- interrupt line claims

\* the interrupt of v that the stub woke is still to be serviced: its wake
\* is pending, or trap_cons holds it for the daemon
Outstanding(v) == v \in twake \/ tcons[v] = "send"

\* C29: while the kernel runs, under every interleaving of the trap stub
\* with trap_cons and the daemon, the stub applies its IOAPIC mask before
\* the daemon unmasks the line for the same interrupt (a stub that has yet
\* to mask finds its interrupt still to be serviced), and the line is not
\* masked with no wake pending and no service outstanding.
C29_MaskBeforeUnmask ==
    Up => \A v \in ConsVecs :
            /\ tstub[v] = "irq_mask" => Outstanding(v)
            /\ v - IRQ_BASE \in tmask => Outstanding(v)

\* C29, the part that holds: the step in which the daemon services the
\* interrupt of v without a panic leaves the line of v unmasked, and a line
\* is masked only after a stub call for it.
C29_ServiceUnmasks ==
    /\ [][\A v \in ConsVecs :
            (tcons[v] = "send" /\ tcons'[v] = "irqsched" /\ kpc' # "panic")
               => v - IRQ_BASE \notin tmask']_vars
    /\ [](tmask # {} => tres.called /\ tmask \subseteq {IRQ_KBD, IRQ_COM1})

\* C29, the state where the line stays masked: the daemon serviced the
\* keyboard interrupt and unmasked the line while the stub had yet to mask
\* it; the stub has returned, and nothing is left to unmask the line
C29_Witness ==
    /\ Up
    /\ IRQ_KBD \in tmask
    /\ tstub[INT_KBD] = "idle"
    /\ ~Outstanding(INT_KBD)
    /\ Len(appended) > 0

\* ------------------------------------------------------- kbd_get claims

\* the tasks whose request the daemon has accepted and not answered yet:
\* they are at return <- cons.reader
Accepted == {r \in Getters : rd[r].pc = "recv"}

\* C30: with several tasks in kbd_get, the daemon holds a reply only for
\* the one task whose request it accepted, cut to what that task asked for
\* and to the bytes there are; no task waits on cons.reader otherwise. The
\* task that receives a slice is that task, the slice is the one made for
\* its request and no longer than its count, and a task whose request is
\* still to be accepted receives nothing.
C30_ReplyToRequester ==
    /\ [](kpc = "reply" =>
            \E r \in Getters :
                /\ Accepted = {r}
                /\ kreg.l = reqlen(rd[r].cnt, Len(data))
                /\ kreg.l <= rd[r].cnt)
    /\ [](kpc \in {"select", "pollret"} => Accepted = {})
    /\ [][\A r \in Getters :
            (rd'[r].pc = "hold" /\ rd[r].pc # "hold") =>
               /\ kpc = "reply"
               /\ Accepted = {r}
               /\ Len(rd'[r].snap) = kreg.l
               /\ Len(rd'[r].snap) <= rd[r].cnt
               /\ rd'[r].snap = SubSeq(data, 1, kreg.l)
               /\ \A q \in Getters \ {r} : rd'[q] = rd[q]]_vars

\* C30, its case: task 2 asked for one byte and task 1 for two while two
\* bytes were there; the daemon accepted the request of task 2 first and
\* task 2 holds the one-byte slice while task 1 still waits to send
C30_Witness ==
    /\ rd[2].pc = "hold"
    /\ rd[2].cnt = 1
    /\ Len(rd[2].snap) = 1
    /\ rd[1].pc = "send"
    /\ rd[1].cnt = 2
    /\ Len(data) = 1

\* ---------------------------------------------------------- passfd claims

\* the fds in the queue, oldest first, as the ring holds them
Queued(q) ==
    [k \in 1..(q.inum - q.cnum) |-> q.cb[((q.cnum + k - 1) % Len(q.cb)) + 1]]

\* the fds add accepted that no take has returned yet
Pending == SubSeq(added, Len(taken) + 1, Len(added))

\* C6: after any sequence of add and take the queue holds at most 10 fds
\* (inum - cnum <= 10); add returns false exactly when 10 fds are queued and
\* then changes neither the ring nor the indices; otherwise it returns true
\* and stores the fd in slot inum % 10, advancing inum by one.
C6_AddBoundedByTen ==
    /\ [](pf.inum - pf.cnum <= PassfdCap)
    /\ [][pres'.op = "add" =>
            /\ pres'.ok <=> (pf.inum - pf.cnum # PassfdCap)
            /\ ~pres'.ok => pf' = pf
            /\ pres'.ok =>
                 /\ pf'.inum = pf.inum + 1
                 /\ pf'.cnum = pf.cnum
                 /\ Len(pf'.cb) = PassfdCap
                 /\ \A i \in 1..PassfdCap :
                      pf'.cb[i] = IF i = (pf.inum % PassfdCap) + 1
                                  THEN pres'.fd
                                  ELSE IF pf.cb = <<>> THEN NilFd
                                  ELSE pf.cb[i]]_vars

\* C6, its case: an add refused on a ring that is full after wrapping
C6_Witness ==
    /\ pres.op = "add"
    /\ ~pres.ok
    /\ pf.inum - pf.cnum = PassfdCap
    /\ pf.cnum > PassfdCap
    /\ pf.cnum % PassfdCap # 0

\* C7: take returns the fds in the order add accepted them, also across
\* wraps of the ring; take on an empty queue (a nil ring included) returns
\* (nil, false) and changes nothing.
C7_TakeIsFifo ==
    /\ [](/\ Len(taken) <= Len(added)
          /\ taken = SubSeq(added, 1, Len(taken))
          /\ Queued(pf) = Pending)
    /\ [][pres'.op = "take" =>
            IF pf.inum = pf.cnum
            THEN ~pres'.ok /\ pres'.fd = NilFd /\ pf' = pf /\ taken' = taken
            ELSE pres'.ok /\ pres'.fd = added[Len(taken) + 1]]_vars

\* C7, its case: a take of an fd stored after the ring wrapped twice, from
\* a queue that lies across the end of the ring
C7_Witness ==
    /\ pres.op = "take"
    /\ pres.ok
    /\ pres.fd > 2 * PassfdCap
    /\ pf.inum > pf.cnum
    /\ pf.inum % PassfdCap < pf.cnum % PassfdCap

\* C8: closeall closes, once each, exactly the fds that were added and not
\* yet taken, and leaves the queue empty; a closeall right after a closeall
\* closes nothing.
C8_CloseAllClosesPending ==
    [][pres'.op = "closeall" =>
         /\ pres'.closed = Pending
         /\ \A i, j \in 1..Len(pres'.closed) :
              i # j => pres'.closed[i] # pres'.closed[j]
         /\ pf'.inum = pf'.cnum
         /\ pf'.inum = pf.inum
         /\ pres.op = "closeall" => pres'.closed = <<>>]_vars

\* C8, its case: a closeall of a full queue on a ring that wrapped twice
C8_Witness ==
    /\ pres.op = "closeall"
    /\ Len(pres.closed) = PassfdCap
    /\ pf.cnum > 2 * PassfdCap
    /\ pf.cnum % PassfdCap # 0

\* ------------------------------------------------------- proc_new claims

\* C9: in every interleaving of proc_new calls the pids of the successful
\* calls are pairwise distinct and strictly increasing in the order the
\* calls took proclock; a successful call leaves pid_cur 2 above what it
\* found, and its first thread has the id pid + 1.
C9_PidsIncreaseInLockOrder ==
    /\ \A i, j \in 1..Len(emitted) :
         i < j => emitted[i].pid < emitted[j].pid
    /\ \A i \in 1..Len(emitted) : emitted[i].tid0 = emitted[i].pid + 1
    /\ \A t \in Callers :
         /\ tpc[t] = "unlock" =>
              /\ pid_cur = tl[t].cur0 + 2
              /\ emitted[Len(emitted)] = [pid |-> tl[t].np, tid0 |-> tl[t].tid0]
         /\ pret[t].ok =>
              /\ pret[t].tid0 = pret[t].pid + 1
              /\ \E i \in 1..Len(emitted) : emitted[i].pid = pret[t].pid
              /\ pret[t].pid \in DOMAIN allprocs
              /\ \A u \in Callers \ {t} :
                   /\ pret[u].ok => pret[u].pid # pret[t].pid
                   /\ tpc[u] \in {"fill", "cwd"} =>
                        tl[u].np # pret[t].pid

\* C9, its case: two tasks each hold a process of their own, the one that
\* took proclock second returned first
C9_Witness ==
    \E t, u \in Callers :
        /\ Len(emitted) >= 2
        /\ pret[t].ok
        /\ pret[t].pid = emitted[2].pid
        /\ tpc[u] = "cwd"
        /\ tl[u].np = emitted[1].pid

\* C10: a proc_new call that finds nthreads >= syslimit.sysprocs returns
\* (nil, false) and leaves nthreads, pid_cur and allprocs as they were; it
\* has copied no fd and reopened no cwd.
C10_OverLimitChangesNothing ==
    [][\A t \in Callers :
         (tpc[t] = "check" /\ tpc'[t] # "check" /\ nthreads >= SysProcs) =>
            /\ tpc'[t] = "start"
            /\ pret'[t].done
            /\ ~pret'[t].ok
            /\ pret'[t].pid = NoPid
            /\ tl[t].ncopy = 0
            /\ tl[t].nreopen = 0
            /\ nthreads' = nthreads
            /\ pid_cur' = pid_cur
            /\ allprocs' = allprocs
            /\ emitted' = emitted
            /\ proclock' = 0]_vars

\* C10, its case: a call was refused while another task was still filling
\* in the process that used up the limit
C10_Witness ==
    \E t, u \in Callers :
        /\ pret[t].done
        /\ ~pret[t].ok
        /\ tpc[t] = "start"
        /\ nthreads = SysProcs
        /\ tpc[u] = "fill"

\* C22: in every state that interleavings of proc_new calls reach, nthreads
\* is at most syslimit.sysprocs, and the calls that got past the limit test
\* since nthreads was 0 are no more than nthreads, so the successful calls
\* are at most syslimit.sysprocs.
C22_ThreadsWithinLimit ==
    /\ nthreads <= SysProcs
    /\ Len(emitted) <= nthreads
    /\ Cardinality({t \in Callers : tpc[t] \in {"pid", "tid", "insert"}})
           + Len(emitted) = nthreads
    /\ \A t \in Callers : pret[t].ok =>
          \E i \in 1..Len(emitted) : emitted[i].pid = pret[t].pid

\* C22, its case: the limit is used up, one task is still in the call that
\* used it up, and another holds proclock and is about to be refused
C22_Witness ==
    \E t, u \in Callers :
        /\ nthreads = SysProcs
        /\ Len(emitted) = SysProcs
        /\ tpc[t] = "check"
        /\ tpc[u] = "cwd"

\* the non-empty slots of the fd table of a process
HeldSlots(p) == {i \in DOMAIN p.fds : p.fds[i] # NilFd}

\* C32: after proc_new returned successfully, nfds of the new process
\* equals the number of non-empty slots of its fd table, also when the copy
\* of a parent fd failed and its slot was left empty.
C32_NfdsCountsHeldSlots ==
    \A np \in DOMAIN allprocs :
        allprocs[np].started =>
           allprocs[np].nfds = Cardinality(HeldSlots(allprocs[np]))

\* C32, the part that holds: nfds of every process is at least the number
\* of non-empty slots of its fd table and at most the length of the table.
C32_NfdsBoundsHeldSlots ==
    \A np \in DOMAIN allprocs :
        /\ Cardinality(HeldSlots(allprocs[np])) <= allprocs[np].nfds
        /\ allprocs[np].nfds <= Len(allprocs[np].fds)

\* C32, its case: proc_new returned a process whose table has an empty
\* slot for a parent fd that could not be copied, and nfds counts it
C32_Witness ==
    \E t \in Callers :
        /\ pret[t].ok
        /\ allprocs[pret[t].pid].started
        /\ allprocs[pret[t].pid].fds[1] = NilFd
        /\ allprocs[pret[t].pid].nfds = 1

\* the process stored under np is fully identified
Identified(np) ==
    /\ allprocs[np].pid = np
    /\ allprocs[np].tid0 # 0

\* a task other than the one that made np can have proclock now: the lock
\* is free, or a task that did not make np holds it
Findable(np) ==
    /\ np \in DOMAIN allprocs
    /\ \/ proclock = 0
       \/ \E t \in Callers : proclock = t /\ tl[t].np # np

\* C33: in every interleaving, every process that a concurrent task can
\* find in allprocs while it has proclock has its pid field equal to the
\* key it is stored under and its first thread id set.
C33_FoundIsIdentified ==
    \A np \in DOMAIN allprocs : Findable(np) => Identified(np)

\* C33, the part that holds: the pid field of a stored process is unset or
\* its key, its tid0 field is unset or its key plus 1, and a process that
\* proc_new has returned is fully identified.
C33_ReturnedIsIdentified ==
    /\ \A np \in DOMAIN allprocs :
         /\ allprocs[np].pid \in {NoPid, np}
         /\ allprocs[np].tid0 \in {0, np + 1}
         /\ allprocs[np].started => Identified(np)
    /\ \A t \in Callers :
         pret[t].ok => /\ Identified(pret[t].pid)
                       /\ allprocs[pret[t].pid].started

\* C33, its case: a task is in proc_new past proclock.Unlock() and has not
\* yet set the pid of the process it stored; another task holds proclock
\* and the process is in allprocs for it to find
C33_Witness ==
    \E t, u \in Callers :
        /\ tpc[t] = "fill"
        /\ proclock = u
        /\ tpc[u] = "insert"
        /\ tl[t].np \in DOMAIN allprocs
        /\ allprocs[tl[t].np].pid = NoPid

\* ------------------------------------------------------- trapstub claims

\* the vectors trapstub knows
Recognised == {INT_KBD, INT_COM1, INT_DISK} \cup (INT_MSI0..INT_MSI7)

\* C15: trapstub called with a trap number outside (TIMER, IRQ_LAST], or
\* inside it and equal to no vector it knows, never returns, posts no wake
\* and masks no IOAPIC line.
C15_UnknownTrapSpins ==
    [][(tres'.called /\ tres' # tres
          /\ (tres'.trapno <= TIMER \/ tres'.trapno > IRQ_LAST
                \/ tres'.trapno \notin Recognised)) =>
         /\ ~tres'.ret
         /\ tres'.wakes = <<>>
         /\ tres'.masks = <<>>
         /\ twake' = twake
         /\ tmask' = tmask]_vars

\* C15, its case: a trap number inside (TIMER, IRQ_LAST] that is no known
\* vector reached the stub while a disk wake was waiting to be taken
C15_Witness ==
    /\ tres.called
    /\ tres.trapno > TIMER
    /\ tres.trapno <= IRQ_LAST
    /\ tres.trapno \notin Recognised
    /\ ~tres.ret
    /\ INT_DISK \in twake

\* C16: for a trap frame whose trap number is a known vector in
\* (TIMER, IRQ_LAST], trapstub posts exactly one wake, for that vector, and
\* returns.
C16_KnownTrapWakesOnce ==
    [][(tres'.called /\ tres' # tres
          /\ tres'.trapno > TIMER /\ tres'.trapno <= IRQ_LAST
          /\ tres'.trapno \in Recognised) =>
         /\ tres'.ret
         /\ tres'.wakes = <<tres'.trapno>>
         /\ twake' \ twake \subseteq {tres'.trapno}
         /\ tres'.trapno \in Waited => tres'.trapno \in twake']_vars

\* C16, its case: the stub woke an MSI vector after it woke the disk
C16_Witness ==
    /\ tres.called
    /\ tres.trapno \in INT_MSI0..INT_MSI7
    /\ tres.ret
    /\ tres.wakes = <<tres.trapno>>
    /\ tdisk = "woken"

\* C23: a trapstub call for the keyboard or the COM1 vector masks the
\* IOAPIC line trapno - IRQ_BASE, and only that line, in the call, so the
\* line is masked when the stub returns to the runtime that sends the LAPIC
\* EOI; a call for the disk vector or for one of INT_MSI0..INT_MSI7 masks
\* no line and leaves every IOAPIC mask as it was.
C23_MaskBeforeReturn ==
    [][(tres'.called /\ tres' # tres) =>
         /\ tres'.trapno \in {INT_KBD, INT_COM1} =>
              /\ tres'.ret
              /\ tres'.masks = <<tres'.trapno - IRQ_BASE>>
              /\ tmask' = tmask \cup {tres'.trapno - IRQ_BASE}
         /\ (tres'.trapno = INT_DISK \/ tres'.trapno \in INT_MSI0..INT_MSI7) =>
              /\ tres'.ret
              /\ tres'.masks = <<>>
              /\ tmask' = tmask]_vars

\* C23, its case: the stub ran for COM1 and masked line IRQ_COM1 while the
\* keyboard line stayed open and a disk wake, which masked nothing, waits
C23_Witness ==
    /\ tres.called
    /\ tres.trapno = INT_COM1
    /\ tres.ret
    /\ tmask = {IRQ_COM1}
    /\ INT_DISK \in twake

\* C17: a driver task woken for its vector that finds no device condition
\* pending goes back to waiting on the same vector: trap_disk never ends,
\* and from its probe it goes either to the send on ide_int_done or back to
\* IRQsched.
C17_SpuriousGoesBackToWait ==
    /\ [](tdisk # "returned")
    /\ [][tdisk = "woken" => tdisk' \in {"woken", "send", "irqsched"}]_vars

\* -------------------------------------------------------- console claims

\* the bytes delivered so far are the first bytes appended, and data is
\* the rest, as the daemon cut them
CutInOrder ==
    /\ Len(delivered) + Len(data) = Len(appended)
    /\ data = SubSeq(appended, Len(delivered) + 1, Len(appended))

\* C11: the bytes delivered by successive kbd_get calls, as their callers
\* read them, are the bytes the daemon appended, in the order it appended
\* them, each once and none skipped.
C11_DeliveredInAppendOrder ==
    /\ Len(delivered) <= Len(appended)
    /\ \A i \in 1..Len(delivered) :
         delivered[i] # Unread => delivered[i] = appended[i]

\* C11, what holds: the daemon cuts its slices in append order, each byte
\* once and none skipped; a byte read differs from the byte cut only when
\* its slice lies in the array of start.
C11_CutInAppendOrder ==
    /\ CutInOrder
    /\ \A r \in Readers :
         rd[r].pc = "hold" =>
           rd[r].snap = SubSeq(appended, rd[r].k + 1,
                               rd[r].k + Len(rd[r].snap))

\* C11, its case: two kbd_get calls returned a byte each and both were read
C11_Witness ==
    /\ Len(delivered) >= 2
    /\ \A i \in 1..Len(delivered) : delivered[i] # Unread
    /\ \A r \in Readers : rd[r].pc = "idle"

\* C12: kbd_get(cnt) blocks until the daemon holds at least one byte; for
\* cnt >= 1 the slice it returns has between 1 and cnt bytes, the first
\* bytes of data, and data shrinks by exactly that many bytes.
C12_GetReturnsOneToCnt ==
    [][\A r \in Readers :
         /\ (rd[r].pc = "send" /\ rd'[r].pc = "recv") => Len(data) >= 1
         /\ (rd[r].pc = "recv" /\ rd'[r].pc = "hold") =>
              LET n == Len(rd'[r].snap) IN
              /\ n <= rd[r].cnt
              /\ rd[r].cnt >= 1 => n >= 1
              /\ rd'[r].snap = SubSeq(data, 1, n)
              /\ data' = SubSeq(data, n + 1, Len(data))]_vars

\* C12, its case: a call with cnt = 2 was handed the one byte there was
C12_Witness ==
    \E r \in Readers :
        /\ rd[r].pc = "hold"
        /\ rd[r].cnt = 2
        /\ Len(rd[r].snap) = 1
        /\ data = <<>>

\* C13: data never holds more than 1024 bytes, and a byte that arrives
\* when it holds 1024 is dropped with the buffered bytes unchanged.
C13_DataAtMostCap ==
    /\ [](Len(data) <= KeyCap)
    /\ [][Len(data) >= KeyCap => data' = data]_vars

\* C13, what holds: data never holds more than 1025 bytes, and a byte that
\* arrives when it holds 1025 is dropped with the buffered bytes unchanged.
C13_DataAtMostCapPlusOne ==
    /\ [](Len(data) <= KeyCap + 1)
    /\ [][Len(data) >= KeyCap + 1 => data' = data]_vars

\* C13, its case: a key arrived when data held 1025 bytes
C13_Witness ==
    /\ Len(data) = KeyCap + 1
    /\ tcons[INT_KBD] = "send"

WaitsForBytes(r) == rd[r].pc = "send" /\ data # <<>>

Initialised ==
    /\ cs.ncpu > 1
    /\ cs.pc \in {"initipi", "startup1", "startup2", "sleep", "stacks",
                  "publish", "done"}

\* the stacks of the first n APs are mapped
StacksMapped(n) == \A i \in 0..(n - 1) : StackPages(i) \subseteq stk

\* C18: in cpus_start with ncpu > 1 the proceed flag is 0 from its
\* initialisation until cpus_stack_init has mapped the interrupt and NMI
\* stacks of every joined AP; only then is it set, to the joined AP count;
\* no AP that joined is in ap_entry while its stacks are unmapped.
C18_ProceedAfterStacks ==
    Initialised =>
      /\ ss.proceed # 0 =>
           /\ cs.pc = "done"
           /\ cs.i = cs.apcnt
           /\ StacksMapped(cs.apcnt)
           /\ ss.proceed = cs.apcnt
      /\ cs.pc \in {"initipi", "startup1", "startup2", "sleep", "stacks"}
           => ss.proceed = 0
      /\ \A a \in Aps :
           ap[a].pc = "entry" => StackPages(ap[a].id - 1) \subseteq stk

\* C18, its case: two APs joined, their stacks were mapped, the flag was
\* set to 2 and the second AP went to ap_entry
C18_Witness ==
    /\ cs.pc = "done"
    /\ ss.proceed = 2
    /\ StacksMapped(2)
    /\ \E a \in Aps : ap[a].pc = "entry" /\ ap[a].id = 2

\* C19: cpus_start sets the scheduler width to 1 + aplim before it sends
\* any IPI and before the proceed flag becomes non-zero; the joined AP
\* count it publishes is the smaller of the AP count it loaded and aplim,
\* and the CPU count it records is that plus one.
C19_WidthAndJoinedCount ==
    /\ (ipis # <<>> \/ (Initialised /\ ss.proceed # 0)) =>
         gomaxprocs = 1 + cs.aplim
    /\ (Initialised /\ cs.pc \in {"stacks", "publish", "done"}) =>
         /\ cs.found <= Cardinality({a \in Aps : ap[a].pc # "off"})
         /\ cs.apcnt = Min(cs.found, cs.aplim)
         /\ numcpus = Min(cs.found, cs.aplim) + 1
    /\ (Initialised /\ cs.pc = "done") =>
         ss.proceed = Min(cs.found, cs.aplim)

\* C19, its case: two APs wrote the AP count, aplim was 1, so one AP
\* joined and two CPUs were recorded
C19_Witness ==
    /\ cs.pc = "done"
    /\ cs.found = 2
    /\ cs.aplim = 1
    /\ ss.proceed = 1
    /\ numcpus = 2
    /\ gomaxprocs = 2

\* ------------------------------------------------------- allocator claims

\* the frames the allocator owns
Owned == {i \in Frames : physmem.pgs[i].refcnt # Sentinel}

\* C20: after phys_init, whatever Get_phys skipped, and after every
\* sequence of allocations and frees, the free list reachable from freei
\* holds exactly the frames that are owned and not allocated, each linked
\* once; the count of every owned frame is non-negative; a frame whose
\* count is the sentinel -10 is neither on the free list nor allocated.
C20_FreeListExact ==
    ppc = "ready" =>
      /\ Walks(flist)
      /\ Cardinality(Range(flist)) = Len(flist)
      /\ Range(flist) = Owned \ held
      /\ \A i \in Range(flist) : physmem.pgs[i].refcnt = 0
      /\ \A i \in Owned : physmem.pgs[i].refcnt >= 0
      /\ \A i \in held : physmem.pgs[i].refcnt >= 1
      /\ held \subseteq Owned
      /\ (pgret.called /\ pgret.err = 0) => pgret.p \in Owned

\* C20, its case: Get_phys skipped a page, frames were allocated and freed,
\* and the free list is no longer in index order
C20_Witness ==
    /\ ppc = "ready"
    /\ Owned # Frames
    /\ pgret.called
    /\ pgret.err = 0
    /\ physmem.freei # NIL
    /\ physmem.pgs[physmem.freei].nexti # NIL
    /\ physmem.freei > physmem.pgs[physmem.freei].nexti

====
